---- MODULE Spec2Model ----
(***************************************************************************)
(* State-machine model of the CopterSonde GCS telemetry/command core:      *)
(*   gcs/mavlink_client.py  (MAVLinkClient: start/stop, _io_loop, message  *)
(*                           handlers, background command workflows)       *)
(*   gcs/vehicle_state.py   (VehicleState: liveness, history buffers)      *)
(*                                                                         *)
(* The module holds several specifications over one set of variables.      *)
(*   Spec      connection lifecycle: start(), stop() and the IO worker     *)
(*   SpecHb    heartbeat liveness against a discrete monotonic clock       *)
(*   SpecHist  append_history step by step, with a concurrent UI reader    *)
(*   SpecWf    the two background workflows and their on_done callback     *)
(* Each specification moves its own variables and leaves the others at     *)
(* their constructor values.                                               *)
(***************************************************************************)
EXTENDS Integers, Sequences, FiniteSets, TLC

\* ------------------------------------------------------------------------
\* Bounds of the model (not program constants)
\* ------------------------------------------------------------------------
\* Number of start()/stop() calls made on the one client instance.
MaxCalls == 3
\* Value up to which msg_count is followed (start() resets it to 0).
MaxMsgs == 2
\* Last reading of the monotonic clock, in seconds.
MaxTime == 6
\* VehicleState.MAX_HISTORY, the cap of every history buffer. The code sets
\* 3000; the model runs the same code with a cap it can fill and overflow.
MAX_HISTORY == 3
\* append_history calls made.
MaxAppends == 5
\* Background workflow calls made.
MaxWf == 1
\* Passes of trigger_autovp's 1.5 s high-pulse loop (about 15 at 0.1 s each).
MaxPulses == 2

\* EventBus.emit calls made by the IO worker.
MaxEmits == 2
\* Length the subscriber list of one event type may reach.
MaxSubs == 2

\* ------------------------------------------------------------------------
\* Program constants
\* ------------------------------------------------------------------------
HEARTBEAT_TIMEOUT_S == 3

VARIABLES
    \* --- MAVLinkClient fields (mavlink_client.py:66-105) ---
    running,              \* self.running
    conn,                 \* self._conn: 0 is None, n > 0 the n-th transport handle
    conn_str,             \* self._conn_str
    thread,               \* self._thread: 0 is None, else the worker's id
    stop_event,           \* self._stop_event.is_set()
    streams_requested,    \* self._streams_requested
    msg_count,            \* self.msg_count
    first_msg_set,        \* self._first_msg_time is not None
    last_watchdog_log,    \* self._last_watchdog_log
    last_heartbeat_time,  \* self.last_heartbeat_time (0 is the "never" value)
    \* --- VehicleState fields ---
    state_last_heartbeat, \* state.last_heartbeat
    \* --- threads ---
    workers,              \* position of every IO-loop thread ever spawned
    api,                  \* position of the thread calling start()/stop()
    \* --- environment ---
    now,                  \* time.monotonic(), in seconds
    events,               \* CONNECTION_CHANGED events emitted, in order
    \* --- history of the run, read by the properties only ---
    nCalls,               \* start()/stop() calls made so far
    lastCall,             \* how the most recent start()/stop() call ended
    prevCall,             \* how the call before that one ended
    lastJoined,           \* the worker the most recent stop() joined
    vehHbAt,              \* time the last non-GCS heartbeat was handled, -1 never
    \* --- stream requests, the loop's timers, the message being dispatched ---
    armed,                \* state.armed
    last_stream_request_time, \* self._last_stream_request_time
    loop_now,             \* _io_loop's local `now` of each worker
    gcs_hb_sent_at,       \* time of each worker's last heartbeat_send in the loop, -1 none
    last_gcs_hb,          \* _io_loop's local `last_gcs_hb` of each worker
    rx,                   \* the message a worker got from recv_match
    connHbSeen,           \* a vehicle heartbeat was handled in this connection
    \* --- VehicleState history buffers and the threads that touch them ---
    hist,                 \* the h_* lists, by position in _history_keys
    nAppended,            \* append_history calls begun (the sample's number)
    appIdx,               \* pair being processed by append_history, 0 when idle
    appPhase,             \* "append" before buf.append, "trim" before the length test
    clrIdx,               \* key clear_history is about to replace, 0 when idle
    rdPc,                 \* position of ProfileScreen.update on the UI thread
    rdI,                  \* its loop index i
    rdAlt,                \* the sample it read from h_alt_rel[i]
    rdObs,                \* what it found at h_temperature[i]
    \* --- background workflow threads ---
    wfKind,               \* "autovp", "armtk", or "none" before the call
    wfPc,                 \* position of each workflow's _worker
    wfHasCb,              \* on_done is not None
    wfCalls,              \* on_done invocations, the success flag of each
    wfStepRaised,         \* a command step of the workflow raised
    wfPulses,             \* RC7 high pulses sent so far
    wfRel,                \* RC7 releases sent so far
    wfTx,                 \* what the workflow has put on the link, in order,
                          \* a transmission repeated in a row noted once
    \* --- ParamsScreen fields (main.py:1230-1241) ---
    params,               \* self._params: value by name, NoVal when absent
    original_values,      \* self._original_values, likewise
    modified,             \* self._modified, a dict kept in insertion order
    param_count,          \* self._param_count
    loading,              \* self._loading
    timeout_left,         \* self._timeout_event: seconds left, NoVal when None
    feedback,             \* the text last put in the params_feedback label
    parTx,                \* what the last ParamsScreen operation transmitted
    parOp,                \* the last ParamsScreen operation and its arguments
    silence,              \* seconds since the refresh or the last ParamValue
    \* --- EventBus (event_bus.py) and the Kivy clock behind it ---
    subscribers,          \* self._subscribers[event_type], a list of callbacks
    lockHolder,           \* the thread inside `with self._lock`, or "none"
    emitPc,               \* position of the emitting thread inside emit()
    emitCbs,              \* emit's local `callbacks`, the part not yet scheduled
    clockQueue,           \* callbacks handed to Clock.schedule_once, not yet run
    ran,                  \* callbacks executed so far and the thread of each
    nEmits,               \* emit() calls made
    \* --- the DATA_UPDATED throttle of _io_loop, on a clock of 50 ms steps ---
    emNow,                \* time.monotonic(), in steps of 50 ms
    last_data_emit,       \* _io_loop's local `last_data_emit`
    nSnapshots,           \* snapshots built and emitted so far
    lastSnapshotAt,       \* the loop's `now` at the last snapshot emitted, -1 none
    lastSkipAt,           \* the loop's `now` at the last due emit skipped, -1 none
    \* --- VehicleState telemetry (vehicle_state.py:45-110) and its inputs ---
    state,                \* the telemetry fields of self.state, fixed-point
    telOp,                \* the telemetry message handled last
    status_messages,      \* state.status_messages
    nStatus,              \* STATUSTEXT messages received so far
    sampleTemp,           \* "temperature" of the sample each append was given
    ws_a,                 \* self.ws_a, in tenths
    ws_b,                 \* self.ws_b, in tenths
    last_sysid,           \* self.last_sysid, 0 is None
    last_compid,          \* self.last_compid, 0 is None
    \* --- _on_heartbeat followed statement by statement ---
    hbPc,                 \* how far each worker is inside _on_heartbeat
    hbDone,               \* what the last completed _on_heartbeat left
    lastTarget,           \* kind and target ids of the last command sent
    snap                  \* the last snapshot given to DATA_UPDATED

connVars == <<running, conn, conn_str, thread, stop_event, streams_requested,
              msg_count, first_msg_set, last_watchdog_log, workers, api,
              events, nCalls, lastCall, prevCall, lastJoined>>
hbVars == <<now, last_heartbeat_time, state_last_heartbeat, vehHbAt>>
ioVars == <<armed, last_stream_request_time, loop_now, gcs_hb_sent_at,
            last_gcs_hb, rx, connHbSeen>>

histVars == <<hist, nAppended, appIdx, appPhase, clrIdx, rdPc, rdI, rdAlt,
              rdObs>>
wfVars == <<wfKind, wfPc, wfHasCb, wfCalls, wfStepRaised, wfPulses, wfRel,
            wfTx>>

parVars == <<params, original_values, modified, param_count, loading,
             timeout_left, feedback, parTx, parOp, silence>>
\* the state of the UI-side components
busVars == <<subscribers, lockHolder, emitPc, emitCbs, clockQueue, ran, nEmits>>
uiVars == <<parVars, busVars>>

emVars == <<emNow, last_data_emit, nSnapshots, lastSnapshotAt, lastSkipAt>>
vsVars == <<state, telOp, status_messages, nStatus, sampleTemp, ws_a, ws_b,
            last_sysid, last_compid>>
cmdVars == <<hbPc, hbDone, lastTarget, snap>>
telVars == <<emVars, vsVars, cmdVars>>

vars == <<connVars, hbVars, ioVars, histVars, wfVars, uiVars, telVars>>

\* ------------------------------------------------------------------------
\* Inputs
\* ------------------------------------------------------------------------
ConnStrs == {"udpin:0.0.0.0:14550", "tcp:192.168.0.10:5760"}
WorkerIds == 1..MaxCalls
MAV_TYPE_GCS == "GCS"
MAV_TYPE_QUADROTOR == "QUADROTOR"
\* Inbound messages: a type tag, and for HEARTBEAT the sender's vehicle type,
\* the MAV_MODE_FLAG_SAFETY_ARMED bit of its base_mode, its source system and
\* component ids, its system_status, and `mode`: what self._conn.flightmode
\* reads while the message is handled.
\* The CASS_SENSOR_RAW input of the lifecycle specification is the malformed
\* one: a temperature sample (app_datatype 0) of 1e20 K arriving while
\* mean_rh is 100.0, for which VehicleState.dew_point divides by zero
\* (a - alpha = 0.0) before anything is appended to the history.
VehicleHeartbeats ==
    { [mtype |-> "HEARTBEAT", vtype |-> MAV_TYPE_QUADROTOR, armed |-> a,
       sysid |-> 1, compid |-> 1, system_status |-> 4, mode |-> "LOITER"] :
        a \in BOOLEAN }
\* the heartbeat of another ground station (system 255, component 190)
GcsHeartbeat ==
    [mtype |-> "HEARTBEAT", vtype |-> MAV_TYPE_GCS, armed |-> TRUE,
     sysid |-> 255, compid |-> 190, system_status |-> 3, mode |-> "MANUAL"]
Messages == VehicleHeartbeats \cup
            { GcsHeartbeat,
              [mtype |-> "COMMAND_ACK", vtype |-> "NA", armed |-> FALSE,
               sysid |-> 1, compid |-> 1, system_status |-> 0, mode |-> "NA"],
              [mtype |-> "CASS_SENSOR_RAW", vtype |-> "NA", armed |-> FALSE,
               sysid |-> 1, compid |-> 1, system_status |-> 0, mode |-> "NA"] }
\* no message: what rx holds outside _handle_message
NoMsg == [mtype |-> "NONE", vtype |-> "NA", armed |-> FALSE,
          sysid |-> 0, compid |-> 0, system_status |-> 0, mode |-> "NA"]
\* The handler of m raises: nothing in _handle_message or _io_loop catches it.
HandlerRaises(m) == m.mtype = "CASS_SENSOR_RAW"
\* int(now - _connect_time) samples seen by the watchdog at the top of the loop
ElapsedSamples == {0, 5, 10}

\* VehicleState._history_keys, in the order append_history walks its pairs
HistoryKeys == << "h_time", "h_lat", "h_lon", "h_alt_rel", "h_alt_amsl",
                  "h_temperature", "h_humidity", "h_dew_temp",
                  "h_wind_speed", "h_wind_dir", "h_vert_wind",
                  "h_temp_sensors", "h_rh_sensors", "h_vz" >>
KeyIdx(name) == CHOOSE k \in 1..Len(HistoryKeys) : HistoryKeys[k] = name
WfIds == 1..MaxWf

\* A worker that has been spawned and has not left _io_loop.
Executing(w) ==
    workers[w] \in {"burst", "check", "drain", "handle", "hb", "stream", "emit"}

\* ------------------------------------------------------------------------
\* Constructor
\* ------------------------------------------------------------------------
InitConn ==
    /\ running = FALSE
    /\ conn = 0
    /\ conn_str = "None"
    /\ thread = 0
    /\ stop_event = FALSE
    /\ streams_requested = FALSE
    /\ msg_count = 0
    /\ first_msg_set = FALSE
    /\ last_watchdog_log = 0
    /\ workers = [w \in WorkerIds |-> "unborn"]
    /\ api = "idle"
    /\ events = <<>>
    /\ nCalls = 0
    /\ lastCall = "none"
    /\ prevCall = "none"
    /\ lastJoined = 0

InitHb ==
    /\ now = 1
    /\ last_heartbeat_time = 0
    /\ state_last_heartbeat = 0
    /\ vehHbAt = -1

\* state.armed is False, no stream request was made, no worker has run.
InitIo ==
    /\ armed = FALSE
    /\ last_stream_request_time = 0
    /\ loop_now = [w \in WorkerIds |-> 0]
    /\ gcs_hb_sent_at = [w \in WorkerIds |-> -1]
    /\ last_gcs_hb = [w \in WorkerIds |-> 0]
    /\ rx = [w \in WorkerIds |-> NoMsg]
    /\ connHbSeen = FALSE

\* VehicleState.reset(): the history lists start empty; no append or read is
\* in progress.
InitHist ==
    /\ hist = [k \in 1..Len(HistoryKeys) |-> <<>>]
    /\ nAppended = 0
    /\ appIdx = 0
    /\ appPhase = "append"
    /\ clrIdx = 0
    /\ rdPc = "idle"
    /\ rdI = 0
    /\ rdAlt = 0
    /\ rdObs = "none"

\* No workflow has been called.
InitWf ==
    /\ wfKind = [t \in WfIds |-> "none"]
    /\ wfPc = [t \in WfIds |-> "unborn"]
    /\ wfHasCb = [t \in WfIds |-> FALSE]
    /\ wfCalls = [t \in WfIds |-> <<>>]
    /\ wfStepRaised = [t \in WfIds |-> FALSE]
    /\ wfPulses = [t \in WfIds |-> 0]
    /\ wfRel = [t \in WfIds |-> 0]
    /\ wfTx = [t \in WfIds |-> <<>>]

\* ParamsScreen.__init__: empty maps, no download, no watchdog timer.
\* Parameter values are fixed-point numbers in units of 1e-7.
NoVal == -1
ParamNames == {"USR_AUTOVP_ALT", "SR0_POSITION"}
NoOp == [op |-> "none", name |-> "", value |-> 0]
NoFeedback == [kind |-> "", name |-> "", a |-> 0, b |-> 0]
InitPar ==
    /\ params = [n \in ParamNames |-> NoVal]
    /\ original_values = [n \in ParamNames |-> NoVal]
    /\ modified = <<>>
    /\ param_count = 0
    /\ loading = FALSE
    /\ timeout_left = NoVal
    /\ feedback = NoFeedback
    /\ parTx = <<>>
    /\ parOp = NoOp
    /\ silence = 0

\* EventBus.__init__: no subscribers, the lock free; nothing scheduled.
InitBus ==
    /\ subscribers = <<>>
    /\ lockHolder = "none"
    /\ emitPc = "idle"
    /\ emitCbs = <<>>
    /\ clockQueue = <<>>
    /\ ran = <<>>
    /\ nEmits = 0

InitUi == InitPar /\ InitBus

\* Default wind coefficients, in tenths (37.1 and 3.8).
WS_A == 371
WS_B == 38

\* VehicleState.reset(), with the fields kept as integers:
\*   lat, lon            1e-7 degree      alt_amsl, alt_rel   millimetre
\*   vx, vy, vz          cm/s             heading_deg, hdop   hundredths
\*   airspeed, groundspeed  cm/s          throttle            percent
\*   mean_temp, mean_rh  hundredths       roll, pitch, yaw    milliradian
\*   wind_speed          1e-4 m/s         vertical_wind       mm/s
\*   wind_direction      milliradian
InitState ==
    [lat |-> 0, lon |-> 0, alt_amsl |-> 0, alt_rel |-> 0,
     fix_type |-> 0, satellites |-> 0, hdop |-> 9999,
     roll |-> 0, pitch |-> 0, yaw |-> 0, heading_deg |-> 0,
     groundspeed |-> 0, airspeed |-> 0, vx |-> 0, vy |-> 0, vz |-> 0,
     flight_mode |-> "---", system_status |-> 0,
     mean_temp |-> 0, mean_rh |-> 0,
     wind_speed |-> 0, wind_direction |-> 0, vertical_wind |-> 0,
     throttle |-> 0]

\* no telemetry message has been handled
NoTel == [mtype |-> "NONE"]

\* MAVLinkClient.__init__ and VehicleState.reset(); the loop keeps
\* last_data_emit at 0.0 until its first due emit, and time.monotonic() is
\* past 100 ms when the loop starts.
InitTel ==
    /\ emNow = 2
    /\ last_data_emit = 0
    /\ nSnapshots = 0
    /\ lastSnapshotAt = -1
    /\ lastSkipAt = -1
    /\ state = InitState
    /\ telOp = NoTel
    /\ status_messages = <<>>
    /\ nStatus = 0
    /\ sampleTemp = <<>>
    /\ ws_a = WS_A
    /\ ws_b = WS_B
    /\ last_sysid = 0
    /\ last_compid = 0
    /\ hbPc = [w \in WorkerIds |-> 0]
    /\ hbDone = [seen |-> FALSE, sysid |-> 0, compid |-> 0, armed |-> FALSE,
                 flight_mode |-> "---"]
    /\ lastTarget = [kind |-> "none", sysid |-> 0, compid |-> 0]
    /\ snap = [taken |-> FALSE, armed |-> FALSE, flight_mode |-> "---"]

\* ------------------------------------------------------------------------
\* Liveness readers
\* ------------------------------------------------------------------------
\* MAVLinkClient.heartbeat_age() < HEARTBEAT_TIMEOUT_S, with inf for "never"
ClientIsHealthy ==
    IF last_heartbeat_time = 0 THEN FALSE
    ELSE now - last_heartbeat_time < HEARTBEAT_TIMEOUT_S

\* VehicleState.heartbeat_age() < 3.0
StateIsHealthy ==
    IF state_last_heartbeat = 0 THEN FALSE
    ELSE now - state_last_heartbeat < 3

\* ------------------------------------------------------------------------
\* Message handlers
\* ------------------------------------------------------------------------
\* MAVLinkClient constants
GCS_HEARTBEAT_INTERVAL_S == 1
STREAM_REQUEST_INTERVAL_S == 5

\* _request_data_streams: nothing without a connection; a send that raises
\* is caught and leaves the time of the last request as it was.
RequestDataStreams(sendRaises) ==
    last_stream_request_time' =
        IF conn # 0 /\ ~sendRaises THEN now ELSE last_stream_request_time

\* what _on_heartbeat writes on the client, and the stream-request state
hbFields == <<last_heartbeat_time, state_last_heartbeat, armed,
              streams_requested, last_stream_request_time,
              last_sysid, last_compid>>

\* an _on_heartbeat that does not tell GCS heartbeats from vehicle ones
OnHeartbeat_NoGcsFilter(m, sendRaises) ==
    /\ last_heartbeat_time' = now
    /\ state_last_heartbeat' = now
    /\ last_sysid' = m.sysid
    /\ last_compid' = m.compid
    /\ armed' = m.armed
    /\ state' = [state EXCEPT
                   !.flight_mode = IF conn # 0 THEN m.mode ELSE @,
                   !.system_status = m.system_status]
    /\ IF ~streams_requested
       THEN /\ streams_requested' = TRUE
            /\ RequestDataStreams(sendRaises)
       ELSE UNCHANGED <<streams_requested, last_stream_request_time>>

\* _on_heartbeat: GCS heartbeats are ignored; a vehicle heartbeat stamps both
\* liveness timestamps, caches the sender's ids, sets state.armed from the
\* armed bit, state.flight_mode from the transport (with a connection only),
\* state.system_status, and, when the stream-request flag is not set, sets it
\* and requests the streams.
OnHeartbeat(m, sendRaises) ==
    IF m.vtype = MAV_TYPE_GCS
    THEN UNCHANGED <<hbFields, state>>
    ELSE /\ last_heartbeat_time' = now
         /\ state_last_heartbeat' = now
         /\ last_sysid' = m.sysid
         /\ last_compid' = m.compid
         /\ armed' = m.armed
         /\ state' = [state EXCEPT
                        !.flight_mode = IF conn # 0 THEN m.mode ELSE @,
                        !.system_status = m.system_status]
         /\ IF ~streams_requested
            THEN /\ streams_requested' = TRUE
                 /\ RequestDataStreams(sendRaises)
            ELSE UNCHANGED <<streams_requested, last_stream_request_time>>

\* ------------------------------------------------------------------------
\* Telemetry handlers (VehicleState fields in the units of InitState)
\* ------------------------------------------------------------------------
\* GLOBAL_POSITION_INT: lat, lon in 1e-7 degree, alt and relative_alt in mm,
\* vx, vy, vz in cm/s, hdg in centidegrees with 65535 for "unknown".
HDG_UNKNOWN == 65535
GpiMessages ==
    { [mtype |-> "GLOBAL_POSITION_INT", lat |-> f.lat, lon |-> f.lon,
       alt |-> f.alt, relative_alt |-> f.relative_alt,
       vx |-> f.vx, vy |-> f.vy, vz |-> f.vz, hdg |-> h] :
        f \in { [lat |-> 352305000, lon |-> -974620000, alt |-> 410000,
                 relative_alt |-> 50000, vx |-> 150, vy |-> -40, vz |-> -200],
                [lat |-> 352306000, lon |-> -974621000, alt |-> 395500,
                 relative_alt |-> 35500, vx |-> -80, vy |-> 20, vz |-> 300] },
        h \in {HDG_UNKNOWN, 9000, 0} }

\* VFR_HUD: airspeed and groundspeed in cm/s, heading in whole degrees,
\* throttle in percent, alt in whole metres (AMSL).
VfrHudMessages ==
    { [mtype |-> "VFR_HUD", airspeed |-> 1250, groundspeed |-> 1180,
       heading |-> 270, throttle |-> 55, alt |-> 120],
      [mtype |-> "VFR_HUD", airspeed |-> 0, groundspeed |-> 30,
       heading |-> 0, throttle |-> 0, alt |-> 396] }

\* GPS_RAW_INT: eph is HDOP * 100 (uint16)
GpsRawMessages ==
    { [mtype |-> "GPS_RAW_INT", fix_type |-> 3, satellites_visible |-> 9,
       eph |-> e] : e \in {0, 1, 120, 9998, 9999, 10000, 65535} }

\* an _on_global_position_int that takes hdg as it comes
OnGlobalPositionInt_NoSentinel(m) ==
    state' = [state EXCEPT !.lat = m.lat, !.lon = m.lon,
                           !.alt_amsl = m.alt, !.alt_rel = m.relative_alt,
                           !.vx = m.vx, !.vy = m.vy, !.vz = m.vz,
                           !.heading_deg = m.hdg]

\* _on_global_position_int: position, both altitudes and the velocities are
\* always taken; heading_deg only when hdg is not 65535.
OnGlobalPositionInt(m) ==
    state' = [state EXCEPT !.lat = m.lat, !.lon = m.lon,
                           !.alt_amsl = m.alt, !.alt_rel = m.relative_alt,
                           !.vx = m.vx, !.vy = m.vy, !.vz = m.vz,
                           !.heading_deg =
                               IF m.hdg # HDG_UNKNOWN THEN m.hdg ELSE @]

\* an _on_vfr_hud that writes its altitude to both altitude fields
OnVfrHud_BothAltitudes(m) ==
    state' = [state EXCEPT !.airspeed = m.airspeed,
                           !.groundspeed = m.groundspeed,
                           !.heading_deg = m.heading * 100,
                           !.throttle = m.throttle,
                           !.alt_amsl = m.alt * 1000,
                           !.alt_rel = m.alt * 1000]

\* _on_vfr_hud: speeds, heading, throttle and the AMSL altitude; alt_rel is
\* not written.
OnVfrHud(m) ==
    state' = [state EXCEPT !.airspeed = m.airspeed,
                           !.groundspeed = m.groundspeed,
                           !.heading_deg = m.heading * 100,
                           !.throttle = m.throttle,
                           !.alt_amsl = m.alt * 1000]

\* HDOP shown for "unknown", in hundredths (99.99)
HDOP_UNKNOWN == 9999

\* an HDOP conversion without the sentinel
Hdop_NoSentinel(eph) == eph

\* msg.eph / 100.0 if msg.eph and msg.eph < 9999 else 99.99, in hundredths
Hdop(eph) == IF eph # 0 /\ eph < 9999 THEN eph ELSE HDOP_UNKNOWN

\* _on_gps_raw_int
OnGpsRawInt(m) ==
    state' = [state EXCEPT !.fix_type = m.fix_type,
                           !.satellites = m.satellites_visible,
                           !.hdop = Hdop(m.eph)]

\* STATUSTEXT number n: its text is its number
StatusText(n) == [mtype |-> "STATUSTEXT", severity |-> n % 8, text |-> n]

\* the cap of state.status_messages
STATUS_LOG_CAP == 200

\* the oldest STATUS_LOG_CAP entries of log
Newest_Oldest(log) ==
    IF Len(log) > STATUS_LOG_CAP THEN SubSeq(log, 1, STATUS_LOG_CAP)
    ELSE log

\* log[-200:] when len(log) > 200, else log
Newest(log) ==
    IF Len(log) > STATUS_LOG_CAP
    THEN SubSeq(log, Len(log) - STATUS_LOG_CAP + 1, Len(log))
    ELSE log

\* _on_statustext: append the entry, then cap the list; nStatus counts the
\* STATUSTEXT messages handled
OnStatusText(m) ==
    /\ status_messages' =
           Newest(Append(status_messages,
                         [severity |-> m.severity, text |-> m.text]))
    /\ nStatus' = nStatus + 1

\* CASS_SENSOR_RAW: app_datatype selects the payload (0 temperatures in K,
\* 1 humidities in %, 2 resistances, 3 wind); values in hundredths;
\* time_boot_ms is 0 in every message here. TEMP_1E20 stands for a channel
\* reading of 1e20 K, which does not fit the integers of the model.
TEMP_1E20 == 2000000000
CassMessages ==
    { [mtype |-> "CASS_SENSOR_RAW", app_datatype |-> 0,
       values |-> <<30000, 30100, 0, -500>>],
      [mtype |-> "CASS_SENSOR_RAW", app_datatype |-> 0,
       values |-> <<0, 0, 0, -500>>],
      [mtype |-> "CASS_SENSOR_RAW", app_datatype |-> 0,
       values |-> <<10000, 10000, 10000, 10000>>],
      [mtype |-> "CASS_SENSOR_RAW", app_datatype |-> 0,
       values |-> <<TEMP_1E20, 0, 0, 0>>],
      [mtype |-> "CASS_SENSOR_RAW", app_datatype |-> 1,
       values |-> <<10000, 10000, 0, 0>>],
      [mtype |-> "CASS_SENSOR_RAW", app_datatype |-> 2,
       values |-> <<110000, 0, 0, 0>>] }

\* [v for v in values[:4] if v and v > 0]
Positive(values) == SelectSeq(SubSeq(values, 1, 4), LAMBDA v : v > 0)

RECURSIVE SumSeq(_)
SumSeq(s) == IF s = <<>> THEN 0 ELSE Head(s) + SumSeq(Tail(s))

\* sum(vs) / len(vs); the readings above have means that are whole hundredths
Mean(vs) == SumSeq(vs) \div Len(vs)

\* mean_temp - 273.15 if mean_temp > 100 else mean_temp
TempC(mean_temp) ==
    IF mean_temp > 10000 THEN mean_temp - 27315 ELSE mean_temp

\* VehicleState.dew_point raises ZeroDivisionError: rh is positive, temp_c is
\* not below -50, and a - alpha is 0.0, which in double arithmetic happens
\* for rh = 100.0 (log(1.0) = 0.0) and temp_c so large that
\* a * temp_c / (b + temp_c) rounds to a.
DewPointRaises(temp_c, rh) ==
    rh = 10000 /\ temp_c >= TEMP_1E20 - 27315

\* state after lines 603-614: the means of the positive channels
CassMeans(m) ==
    LET vs == Positive(m.values)
    IN  [state EXCEPT
           !.mean_temp = IF m.app_datatype = 0 /\ vs # <<>>
                         THEN Mean(vs) ELSE @,
           !.mean_rh = IF m.app_datatype = 1 /\ vs # <<>>
                       THEN Mean(vs) ELSE @]

\* the handler of m raises in dew_point, after the means and before the
\* history sample
CassRaises(m) ==
    /\ m.app_datatype \in {0, 1}
    /\ DewPointRaises(TempC(CassMeans(m).mean_temp), CassMeans(m).mean_rh)

\* append_history on the temperature and humidity buffers: append, then drop
\* the oldest entry when longer than MAX_HISTORY
AppendSample(buf, x) ==
    LET app == Append(buf, x)
    IN  IF Len(app) > MAX_HISTORY THEN Tail(app) ELSE app

\* _on_cass_sensor_raw: the means, then for sub-types 0 and 1 one history
\* sample with the converted temperature, unless dew_point raised first
OnCassSensorRaw(m) ==
    /\ state' = CassMeans(m)
    /\ IF m.app_datatype \in {0, 1} /\ ~CassRaises(m)
       THEN sampleTemp' =
                AppendSample(sampleTemp,
                             [temperature |-> TempC(CassMeans(m).mean_temp),
                              humidity |-> CassMeans(m).mean_rh])
       ELSE UNCHANGED sampleTemp

\* ATTITUDE: roll, pitch, yaw in milliradians
Pitches == {0, 100, -100, 500, -500, 1000, 1500, -1500, 1600, -1600}
AttitudeMessages ==
    { [mtype |-> "ATTITUDE", roll |-> 0, pitch |-> p, yaw |-> y] :
        p \in Pitches, y \in {0, 1571} }

\* pi/2 in milliradians, rounded up
HALF_PI == 1571

\* math.tan at the angles above, in thousandths: tan is odd, and negative
\* between pi/2 and pi (tan(1.6) = -34.233)
Tan(x) ==
    LET t == CASE x = 0 -> 0
               [] x \in {100, -100} -> 100
               [] x \in {500, -500} -> 546
               [] x \in {1000, -1000} -> 1557
               [] x \in {1500, -1500} -> 14101
               [] x \in {1600, -1600} -> -34233
    IN  IF x < 0 THEN -t ELSE t

\* math.sqrt at the positive tangents above, in thousandths
Sqrt(t) ==
    CASE t = 100 -> 317
      [] t = 546 -> 739
      [] t = 1557 -> 1248
      [] t = 14101 -> 3755
      [] t = 34233 -> 5851

\* a pitch taken with its sign
PitchMagnitude_Signed(pitch) == pitch

\* abs(pitch)
PitchMagnitude(pitch) == IF pitch < 0 THEN -pitch ELSE pitch

\* _compute_wind's wind_speed for coefficients a, b (tenths), in 1e-4 m/s:
\* max(0, a*tan_p + b*sqrt(tan_p)) if tan_p > 0, else 0
WindSpeed(pitch, a, b) ==
    LET tan_p == Tan(PitchMagnitude(pitch))
    IN  IF tan_p > 0
        THEN LET w == a * tan_p + b * Sqrt(tan_p)
             IN  IF w > 0 THEN w ELSE 0
        ELSE 0

\* _on_attitude and _compute_wind: the angles are stored, wind_speed is
\* recomputed from the pitch, wind_direction is the yaw, vertical_wind is
\* -vz / 100 (vz in cm/s, vertical_wind in mm/s here)
OnAttitude(m) ==
    state' = [state EXCEPT !.roll = m.roll, !.pitch = m.pitch,
                           !.yaw = m.yaw,
                           !.wind_speed = WindSpeed(m.pitch, ws_a, ws_b),
                           !.wind_direction = m.yaw,
                           !.vertical_wind = -state.vz * 10]

\* _handle_message: count the message, note the first one, dispatch by type
\* through _MSG_HANDLERS (COMMAND_ACK is only logged). msg_count is followed
\* up to MaxMsgs.
HandleMessage(m, sendRaises) ==
    /\ msg_count' = IF msg_count < MaxMsgs THEN msg_count + 1 ELSE msg_count
    /\ first_msg_set' = TRUE
    /\ CASE m.mtype = "HEARTBEAT" ->
              /\ OnHeartbeat(m, sendRaises)
              /\ UNCHANGED <<status_messages, nStatus, sampleTemp>>
         [] m.mtype = "GLOBAL_POSITION_INT" ->
              /\ OnGlobalPositionInt(m)
              /\ UNCHANGED <<hbFields, status_messages, nStatus, sampleTemp>>
         [] m.mtype = "ATTITUDE" ->
              /\ OnAttitude(m)
              /\ UNCHANGED <<hbFields, status_messages, nStatus, sampleTemp>>
         [] m.mtype = "VFR_HUD" ->
              /\ OnVfrHud(m)
              /\ UNCHANGED <<hbFields, status_messages, nStatus, sampleTemp>>
         [] m.mtype = "GPS_RAW_INT" ->
              /\ OnGpsRawInt(m)
              /\ UNCHANGED <<hbFields, status_messages, nStatus, sampleTemp>>
         [] m.mtype = "STATUSTEXT" ->
              /\ OnStatusText(m)
              /\ UNCHANGED <<hbFields, state, sampleTemp>>
         [] m.mtype = "CASS_SENSOR_RAW" ->
              /\ OnCassSensorRaw(m)
              /\ UNCHANGED <<hbFields, status_messages, nStatus>>
         [] OTHER ->
              UNCHANGED <<hbFields, state, status_messages, nStatus,
                          sampleTemp>>

\* ------------------------------------------------------------------------
\* start() and stop(), called from the UI thread
\* ------------------------------------------------------------------------
\* start() without its already-running test
AlreadyRunning_Never == FALSE

\* `if self.running:` at the top of start()
AlreadyRunning == running

\* a failed open that has already marked the client as running
StartOpenFailed_HalfStarted(cs) ==
    /\ conn_str' = cs
    /\ running' = TRUE
    /\ lastCall' = "start_raised"
    /\ UNCHANGED <<conn, thread, stop_event, msg_count, first_msg_set,
                   last_watchdog_log, workers, events, connHbSeen>>

\* start(): mavutil.mavlink_connection raised; the exception is re-raised.
\* _conn_str was assigned before the attempt.
StartOpenFailed(cs) ==
    /\ conn_str' = cs
    /\ lastCall' = "start_raised"
    /\ UNCHANGED <<running, conn, thread, stop_event, msg_count,
                   first_msg_set, last_watchdog_log, workers, events,
                   connHbSeen>>

\* start(): the transport opened; reset diagnostics, clear the stop event,
\* spawn the worker, set running, emit CONNECTION_CHANGED(connected=True).
StartOpened(cs) ==
    /\ conn_str' = cs
    /\ conn' = nCalls + 1
    /\ msg_count' = 0
    /\ first_msg_set' = FALSE
    /\ last_watchdog_log' = 0
    /\ stop_event' = FALSE
    /\ thread' = nCalls + 1
    /\ workers' = [workers EXCEPT ![nCalls + 1] = "burst"]
    /\ running' = TRUE
    /\ events' = Append(events, TRUE)
    /\ lastCall' = "start_ok"
    /\ connHbSeen' = FALSE

\* start(conn_str); opens tells whether mavutil.mavlink_connection succeeds.
Start(cs, opens) ==
    /\ api = "idle"
    /\ nCalls < MaxCalls
    /\ nCalls' = nCalls + 1
    /\ prevCall' = lastCall
    /\ IF AlreadyRunning
       THEN /\ lastCall' = "start_noop"
            /\ UNCHANGED <<running, conn, conn_str, thread, stop_event,
                           msg_count, first_msg_set, last_watchdog_log,
                           workers, events, connHbSeen>>
       ELSE IF opens THEN StartOpened(cs) ELSE StartOpenFailed(cs)
    /\ UNCHANGED <<streams_requested, api, lastJoined, hbVars,
                   armed, last_stream_request_time, loop_now,
                   gcs_hb_sent_at, last_gcs_hb, rx>>
    /\ UNCHANGED <<histVars, wfVars, uiVars, telVars>>

\* stop() up to the join: the no-op return, or set the event and wait.
StopCall ==
    /\ api = "idle"
    /\ nCalls < MaxCalls
    /\ nCalls' = nCalls + 1
    /\ prevCall' = lastCall
    /\ IF ~running
       THEN /\ lastCall' = "stop_noop"
            /\ UNCHANGED <<stop_event, api>>
       ELSE /\ stop_event' = TRUE
            /\ api' = "stop_join"
            /\ lastCall' = "stop_pending"
    /\ UNCHANGED <<running, conn, conn_str, thread, streams_requested,
                   msg_count, first_msg_set, last_watchdog_log, workers,
                   events, lastJoined, hbVars, ioVars>>
    /\ UNCHANGED <<histVars, wfVars, uiVars, telVars>>

\* a stop() that forgets to close and drop the transport
StopFinish_KeepsConn(how) ==
    /\ lastJoined' = thread
    /\ thread' = 0
    /\ running' = FALSE
    /\ streams_requested' = FALSE
    /\ events' = Append(events, FALSE)
    /\ api' = "idle"
    /\ lastCall' = how
    /\ UNCHANGED <<conn, conn_str, stop_event, msg_count, first_msg_set,
                   last_watchdog_log, workers, nCalls, prevCall, hbVars, ioVars>>
    /\ UNCHANGED <<histVars, wfVars, uiVars, telVars>>

\* a stop() that emits no event
StopFinish_Silent(how) ==
    /\ lastJoined' = thread
    /\ thread' = 0
    /\ conn' = 0
    /\ running' = FALSE
    /\ streams_requested' = FALSE
    /\ api' = "idle"
    /\ lastCall' = how
    /\ UNCHANGED <<conn_str, stop_event, msg_count, first_msg_set,
                   last_watchdog_log, workers, nCalls, prevCall, hbVars, ioVars,
                   events>>
    /\ UNCHANGED <<histVars, wfVars, uiVars, telVars>>

\* stop() after the join: drop the thread, close the transport, clear flags,
\* emit CONNECTION_CHANGED(connected=False).
StopFinish(how) ==
    /\ lastJoined' = thread
    /\ thread' = 0
    /\ conn' = 0
    /\ running' = FALSE
    /\ streams_requested' = FALSE
    /\ events' = Append(events, FALSE)
    /\ api' = "idle"
    /\ lastCall' = how
    /\ UNCHANGED <<conn_str, stop_event, msg_count, first_msg_set,
                   last_watchdog_log, workers, nCalls, prevCall, hbVars, ioVars>>
    /\ UNCHANGED <<histVars, wfVars, uiVars, telVars>>

\* join() returns because the worker thread has ended.
JoinReturns ==
    /\ api = "stop_join"
    /\ workers[thread] \in {"exited", "died"}
    /\ StopFinish("stop_joined")

\* a join() without a timeout never gives up
JoinTimeout_Unbounded == FALSE

\* join(timeout=5.0) gives up: the worker has spent the 5 s inside its
\* receive-drain loop, the one place of _io_loop with no bound on its duration.
JoinTimeout ==
    /\ api = "stop_join"
    /\ workers[thread] \in {"drain", "handle"}
    /\ StopFinish("stop_timeout")

\* ------------------------------------------------------------------------
\* _io_loop, one action per step of the worker thread w
\* ------------------------------------------------------------------------
\* The startup burst of three GCS heartbeats (send errors are caught), then
\* `last_gcs_hb = 0.0`.
IoBurst(w) ==
    /\ workers[w] = "burst"
    /\ workers' = [workers EXCEPT ![w] = "check"]
    /\ last_gcs_hb' = [last_gcs_hb EXCEPT ![w] = 0]
    /\ UNCHANGED <<running, conn, conn_str, thread, stop_event,
                   streams_requested, msg_count, first_msg_set,
                   last_watchdog_log, api, events, nCalls, lastCall,
                   prevCall, lastJoined, hbVars>>
    /\ UNCHANGED <<armed, last_stream_request_time, loop_now,
                   gcs_hb_sent_at, rx, connHbSeen>>
    /\ UNCHANGED <<histVars, wfVars, uiVars, telVars>>

\* `while not self._stop_event.is_set()`, `now = time.monotonic()`, then
\* the watchdog.
IoCheck(w) ==
    /\ workers[w] = "check"
    /\ IF stop_event
       THEN /\ workers' = [workers EXCEPT ![w] = "exited"]
            /\ UNCHANGED <<last_watchdog_log, loop_now>>
       ELSE /\ workers' = [workers EXCEPT ![w] = "drain"]
            /\ loop_now' = [loop_now EXCEPT ![w] = now]
            /\ \E e \in ElapsedSamples :
                  last_watchdog_log' =
                     IF ~first_msg_set /\ e >= 5 /\ e % 5 = 0
                        /\ e # last_watchdog_log
                     THEN e ELSE last_watchdog_log
    /\ UNCHANGED <<running, conn, conn_str, thread, stop_event,
                   streams_requested, msg_count, first_msg_set, api, events,
                   nCalls, lastCall, prevCall, lastJoined, hbVars>>
    /\ UNCHANGED <<armed, last_stream_request_time, gcs_hb_sent_at,
                   last_gcs_hb, rx, connHbSeen>>
    /\ UNCHANGED <<histVars, wfVars, uiVars, telVars>>

\* One recv_match of the drain loop.
\*   recv = "none"   nothing queued: leave the drain loop
\*   recv = "raise"  recv_match raised (a transport error, or self._conn is
\*                   None after stop()): caught, treated as nothing queued
\*   recv = "msg"    the message m was queued: it goes to _handle_message
IoDrain(w, recv, m) ==
    /\ workers[w] = "drain"
    /\ IF conn = 0 \/ recv = "raise"
       THEN /\ recv = "raise"
            /\ workers' = [workers EXCEPT ![w] = "hb"]
            /\ UNCHANGED rx
       ELSE IF recv = "none"
       THEN /\ workers' = [workers EXCEPT ![w] = "hb"]
            /\ UNCHANGED rx
       ELSE /\ workers' = [workers EXCEPT ![w] = "handle"]
            /\ rx' = [rx EXCEPT ![w] = m]
    /\ UNCHANGED <<running, conn, conn_str, thread, stop_event,
                   streams_requested, msg_count, first_msg_set,
                   last_watchdog_log, api, events, nCalls, lastCall,
                   prevCall, lastJoined, hbVars>>
    /\ UNCHANGED <<armed, last_stream_request_time, loop_now,
                   gcs_hb_sent_at, last_gcs_hb, connHbSeen>>
    /\ UNCHANGED <<histVars, wfVars, uiVars, telVars>>

\* `self._handle_message(msg)` for the message just received; sendRaises
\* tells whether request_data_stream_send raises when _on_heartbeat gets to
\* it. Nothing in _io_loop catches what a handler raises.
IoHandle(w, sendRaises) ==
    /\ workers[w] = "handle"
    /\ rx' = [rx EXCEPT ![w] = NoMsg]
    /\ IF HandlerRaises(rx[w])
       THEN /\ msg_count' = IF msg_count < MaxMsgs
                            THEN msg_count + 1 ELSE msg_count
            /\ first_msg_set' = TRUE
            /\ workers' = [workers EXCEPT ![w] = "died"]
            /\ UNCHANGED <<hbFields, state, status_messages, nStatus,
                           sampleTemp>>
       ELSE /\ HandleMessage(rx[w], sendRaises)
            /\ workers' = [workers EXCEPT ![w] = "drain"]
    /\ IF rx[w].mtype = "HEARTBEAT" /\ rx[w].vtype # MAV_TYPE_GCS
       THEN /\ vehHbAt' = now
            /\ connHbSeen' = (connHbSeen \/ running)
       ELSE UNCHANGED <<vehHbAt, connHbSeen>>
    /\ UNCHANGED <<running, conn, conn_str, thread, stop_event,
                   last_watchdog_log, api, events, nCalls, lastCall,
                   prevCall, lastJoined, now>>
    /\ UNCHANGED <<loop_now, gcs_hb_sent_at, last_gcs_hb>>
    /\ UNCHANGED <<histVars, wfVars, uiVars, emVars, cmdVars>>
    /\ UNCHANGED <<telOp, ws_a, ws_b>>

\* The GCS heartbeat, sent when the loop's `now` is at least 1 s past
\* last_gcs_hb; _send_gcs_heartbeat catches what the send raises (sendRaises,
\* or self._conn is None), and last_gcs_hb becomes the loop's `now` either way.
IoHeartbeat(w, sendRaises) ==
    /\ workers[w] = "hb"
    /\ workers' = [workers EXCEPT ![w] = "stream"]
    /\ IF loop_now[w] - last_gcs_hb[w] >= GCS_HEARTBEAT_INTERVAL_S
       THEN /\ last_gcs_hb' = [last_gcs_hb EXCEPT ![w] = loop_now[w]]
            /\ gcs_hb_sent_at' =
                  IF sendRaises \/ conn = 0 THEN gcs_hb_sent_at
                  ELSE [gcs_hb_sent_at EXCEPT ![w] = now]
       ELSE UNCHANGED <<last_gcs_hb, gcs_hb_sent_at>>
    /\ UNCHANGED <<running, conn, conn_str, thread, stop_event,
                   streams_requested, msg_count, first_msg_set,
                   last_watchdog_log, api, events, nCalls, lastCall,
                   prevCall, lastJoined, hbVars>>
    /\ UNCHANGED <<armed, last_stream_request_time, loop_now, rx, connHbSeen>>
    /\ UNCHANGED <<histVars, wfVars, uiVars, telVars>>

\* The periodic stream re-request, made when the flag is set and the loop's
\* `now` is at least 5 s past the last request.
IoStream(w, sendRaises) ==
    /\ workers[w] = "stream"
    /\ workers' = [workers EXCEPT ![w] = "emit"]
    /\ IF /\ streams_requested
          /\ loop_now[w] - last_stream_request_time >= STREAM_REQUEST_INTERVAL_S
       THEN RequestDataStreams(sendRaises)
       ELSE UNCHANGED last_stream_request_time
    /\ UNCHANGED <<running, conn, conn_str, thread, stop_event,
                   streams_requested, msg_count, first_msg_set,
                   last_watchdog_log, api, events, nCalls, lastCall,
                   prevCall, lastJoined, hbVars>>
    /\ UNCHANGED <<armed, loop_now, gcs_hb_sent_at, last_gcs_hb, rx,
                   connHbSeen>>
    /\ UNCHANGED <<histVars, wfVars, uiVars, telVars>>

\* The 10 Hz DATA_UPDATED emit, then the 5 ms sleep; nothing catches what
\* event_bus.emit raises.
IoEmit(w, emitRaises) ==
    /\ workers[w] = "emit"
    /\ IF emitRaises
       THEN workers' = [workers EXCEPT ![w] = "died"]
       ELSE workers' = [workers EXCEPT ![w] = "check"]
    /\ UNCHANGED <<running, conn, conn_str, thread, stop_event,
                   streams_requested, msg_count, first_msg_set,
                   last_watchdog_log, api, events, nCalls, lastCall,
                   prevCall, lastJoined, hbVars, ioVars>>
    /\ UNCHANGED <<histVars, wfVars, uiVars, telVars>>

\* ------------------------------------------------------------------------
\* Specification of the connection lifecycle
\* ------------------------------------------------------------------------
Init ==
    InitConn /\ InitHb /\ InitIo /\ InitHist /\ InitWf /\ InitUi /\ InitTel

Next ==
    \/ \E cs \in ConnStrs, opens \in BOOLEAN : Start(cs, opens)
    \/ StopCall
    \/ JoinReturns
    \/ JoinTimeout
    \/ \E w \in WorkerIds : IoBurst(w)
    \/ \E w \in WorkerIds : IoCheck(w)
    \/ \E w \in WorkerIds, recv \in {"none", "raise", "msg"}, m \in Messages :
          IoDrain(w, recv, m)
    \/ \E w \in WorkerIds, r \in BOOLEAN : IoHandle(w, r)
    \/ \E w \in WorkerIds, r \in BOOLEAN : IoHeartbeat(w, r)
    \/ \E w \in WorkerIds, r \in BOOLEAN : IoStream(w, r)
    \/ \E w \in WorkerIds, r \in BOOLEAN : IoEmit(w, r)

Spec == Init /\ [][Next]_vars

\* ========================================================================
\* Properties of the connection lifecycle (checked under Spec)
\* ========================================================================
StartKinds == {"start_noop", "start_raised", "start_ok"}
StopKinds == {"stop_noop", "stop_joined", "stop_timeout"}
\* The step is a call of start() / the whole of a stop() that found nothing
\* running.
IsStartStep == nCalls' = nCalls + 1 /\ lastCall' \in StartKinds
IsStopNoopStep == nCalls' = nCalls + 1 /\ lastCall' = "stop_noop"

\* C1 (as claimed): over any sequence of start() and stop() calls, at most
\* one IO-loop worker is executing at any time, also after a stop() whose
\* join timed out.
C1_AtMostOneWorker ==
    Cardinality({w \in WorkerIds : Executing(w)}) <= 1

\* C2 (as claimed): while the client is running and stop has not been
\* signalled, no exception raised inside the IO loop ends it: the worker
\* that start() spawned is still executing _io_loop.
C2_LoopSurvivesExceptions ==
    (running /\ ~stop_event /\ thread # 0) => Executing(thread)

C4_StartWhileRunningIsNoop ==
    [][ (running /\ IsStartStep) =>
          UNCHANGED <<running, conn, conn_str, thread, stop_event,
                      streams_requested, msg_count, first_msg_set,
                      last_watchdog_log, workers, events, api>> ]_vars

\* C4 witness: start() was called on a running client that had already
\* handled a message.
C4_Witness ==
    lastCall = "start_noop" /\ running /\ msg_count > 0

\* C5: when opening the transport fails, start() raises and leaves no partial
\* state: running stays false, no worker is spawned, no connection handle is
\* held and no CONNECTION_CHANGED event is emitted; the next start() is not
\* turned away as already running, and when its transport opens it starts
\* the client.
C5_FailedOpenLeavesNoPartialState ==
    /\ [][ (IsStartStep /\ lastCall' = "start_raised") =>
             /\ ~running'
             /\ conn' = 0
             /\ thread' = 0
             /\ UNCHANGED <<running, conn, thread, workers, events,
                            stop_event, api>> ]_vars
    /\ [][ (lastCall = "start_raised" /\ IsStartStep) =>
             /\ lastCall' # "start_noop"
             /\ (lastCall' = "start_ok" =>
                    /\ running'
                    /\ conn' # 0
                    /\ thread' # 0
                    /\ workers'[thread'] = "burst"
                    /\ events' = Append(events, TRUE)) ]_vars

\* C5 witness: a start() whose open failed was followed by a start() that
\* succeeded.
C5_Witness ==
    prevCall = "start_raised" /\ lastCall = "start_ok" /\ running

\* ========================================================================
\* Heartbeat liveness (SpecHb): the client just after a successful start(),
\* its IO worker, and the monotonic clock. time.monotonic() counts from an
\* arbitrary positive origin, so the clock starts above the 0.0 that the
\* code keeps for "no heartbeat yet".
\* ========================================================================
ClockTick ==
    /\ now < MaxTime
    /\ now' = now + 1
    /\ UNCHANGED <<connVars, last_heartbeat_time, state_last_heartbeat,
                   vehHbAt, ioVars>>
    /\ UNCHANGED <<histVars, wfVars, uiVars, telVars>>

InitStarted ==
    /\ running = TRUE
    /\ conn = 1
    /\ conn_str \in ConnStrs
    /\ thread = 1
    /\ stop_event = FALSE
    /\ streams_requested = FALSE
    /\ msg_count = 0
    /\ first_msg_set = FALSE
    /\ last_watchdog_log = 0
    /\ workers = [w \in WorkerIds |-> IF w = 1 THEN "burst" ELSE "unborn"]
    /\ api = "idle"
    /\ events = <<TRUE>>
    /\ nCalls = 1
    /\ lastCall = "start_ok"
    /\ prevCall = "none"
    /\ lastJoined = 0

NextHb ==
    \/ ClockTick
    \/ IoBurst(thread)
    \/ IoCheck(thread)
    \/ \E recv \in {"none", "raise", "msg"}, m \in Messages :
          IoDrain(thread, recv, m)
    \/ \E r \in BOOLEAN : IoHandle(thread, r)
    \/ \E r \in BOOLEAN : IoHeartbeat(thread, r)
    \/ \E r \in BOOLEAN : IoStream(thread, r)
    \/ \E r \in BOOLEAN : IoEmit(thread, r)

InitSpecHb ==
    /\ InitStarted
    /\ InitHb /\ InitIo /\ InitHist /\ InitWf /\ InitUi /\ InitTel

SpecHb == InitSpecHb /\ [][NextHb]_vars

\* C6: at every time, is_healthy() (the client's and VehicleState's) is true
\* exactly when a heartbeat whose type is not GCS was handled less than 3 s
\* earlier; GCS heartbeats and other messages do not refresh it, and before
\* any vehicle heartbeat it is false.
C6_HealthyIffRecentVehicleHeartbeat ==
    LET recent == vehHbAt >= 0 /\ now - vehHbAt < 3
    IN  /\ ClientIsHealthy <=> recent
        /\ StateIsHealthy <=> recent

\* C6 witness: a vehicle heartbeat was handled, a second message was handled
\* after it, and exactly 3 s after the heartbeat the client is unhealthy.
C6_Witness ==
    /\ vehHbAt >= 1
    /\ now = vehHbAt + 3
    /\ msg_count >= 2
    /\ ~ClientIsHealthy
    /\ ~StateIsHealthy

\* ========================================================================
\* History buffers (SpecHist): the IO worker in append_history, one list
\* operation per step, and ProfileScreen.update reading on the UI thread.
\* The sample appended by the n-th call is written n in every buffer.
\* ========================================================================
\* a length test that lets a buffer grow one past the cap
NeedsTrim_OffByOne(buf) == Len(buf) > MAX_HISTORY + 1

\* `if len(buf) > self.MAX_HISTORY:`
NeedsTrim(buf) == Len(buf) > MAX_HISTORY

\* append_history is entered: the pairs list is built from the sample.
AppendBegin ==
    /\ appIdx = 0
    /\ nAppended < MaxAppends
    /\ nAppended' = nAppended + 1
    /\ appIdx' = 1
    /\ appPhase' = "append"
    /\ UNCHANGED <<hist, clrIdx, rdPc, rdI, rdAlt, rdObs>>
    /\ UNCHANGED <<connVars, hbVars, ioVars, wfVars, uiVars, telVars>>

\* `buf.append(val)` for the current pair
AppendStep ==
    /\ appIdx # 0
    /\ appPhase = "append"
    /\ hist' = [hist EXCEPT ![appIdx] = Append(@, nAppended)]
    /\ appPhase' = "trim"
    /\ UNCHANGED <<nAppended, appIdx, clrIdx, rdPc, rdI, rdAlt, rdObs>>
    /\ UNCHANGED <<connVars, hbVars, ioVars, wfVars, uiVars, telVars>>

\* `if len(buf) > self.MAX_HISTORY: del buf[0]`, then the next pair or return
TrimStep ==
    /\ appIdx # 0
    /\ appPhase = "trim"
    /\ hist' = IF NeedsTrim(hist[appIdx])
               THEN [hist EXCEPT ![appIdx] = Tail(@)]
               ELSE hist
    /\ appIdx' = IF appIdx = Len(HistoryKeys) THEN 0 ELSE appIdx + 1
    /\ appPhase' = "append"
    /\ UNCHANGED <<nAppended, clrIdx, rdPc, rdI, rdAlt, rdObs>>
    /\ UNCHANGED <<connVars, hbVars, ioVars, wfVars, uiVars, telVars>>

\* ProfileScreen.update: `if not state.h_time: return`, then the loop over
\* enumerate(state.h_alt_rel) reaches index i and reads the altitude there.
ReadAlt(i) ==
    /\ rdPc = "idle"
    /\ hist[KeyIdx("h_time")] # <<>>
    /\ i \in 1..Len(hist[KeyIdx("h_alt_rel")])
    /\ rdI' = i
    /\ rdAlt' = hist[KeyIdx("h_alt_rel")][i]
    /\ rdPc' = "temp"
    /\ UNCHANGED <<hist, nAppended, appIdx, appPhase, clrIdx, rdObs>>
    /\ UNCHANGED <<connVars, hbVars, ioVars, wfVars, uiVars, telVars>>

\* `if i < len(state.h_temperature):` pairs h_temperature[i] with that
\* altitude; otherwise the altitude has no temperature.
ReadTemp ==
    /\ rdPc = "temp"
    /\ rdObs' = IF rdI <= Len(hist[KeyIdx("h_temperature")])
                THEN IF hist[KeyIdx("h_temperature")][rdI] = rdAlt
                     THEN "aligned" ELSE "misaligned"
                ELSE "missing"
    /\ rdPc' = "idle"
    /\ UNCHANGED <<hist, nAppended, appIdx, appPhase, clrIdx, rdI, rdAlt>>
    /\ UNCHANGED <<connVars, hbVars, ioVars, wfVars, uiVars, telVars>>

NextHist ==
    \/ AppendBegin
    \/ AppendStep
    \/ TrimStep
    \/ \E i \in 1..(MAX_HISTORY + 1) : ReadAlt(i)
    \/ ReadTemp

SpecHist == Init /\ [][NextHist]_vars

\* The samples a buffer must hold after n appends: the last MAX_HISTORY of
\* 1..n, oldest first.
LastSamples(n) ==
    LET len == IF n < MAX_HISTORY THEN n ELSE MAX_HISTORY
    IN  [i \in 1..len |-> n - len + i]

\* C7: after any sequence of append_history calls all 14 history buffers
\* have the same length, at most the cap, and hold the same samples at the
\* same indices: the most recent ones, each append at the cap having removed
\* exactly the oldest sample from every buffer.
C7_HistoryAlignedAndCapped ==
    appIdx = 0 =>
        /\ Len(HistoryKeys) = 14
        /\ \A k \in 1..Len(HistoryKeys) :
              /\ Len(hist[k]) = Len(hist[1])
              /\ Len(hist[k]) <= MAX_HISTORY
              /\ hist[k] = LastSamples(nAppended)

\* C7 witness: two appends were made on full buffers and have completed.
C7_Witness ==
    /\ appIdx = 0
    /\ nAppended = MAX_HISTORY + 2
    /\ Len(hist[KeyIdx("h_vz")]) = MAX_HISTORY

\* C8 (as claimed): a reader running concurrently with append_history never
\* sees the buffers with unequal lengths, nor an index that holds one sample
\* in one buffer and another sample, or none, in another buffer.
C8_ReaderSeesAlignedBuffers ==
    rdObs \notin {"misaligned", "missing"}

\* ========================================================================
\* Background workflows (SpecWf): trigger_autovp and arm_and_takeoff_auto
\* each run _worker on a thread of their own. The client is either never
\* connected or connected and then stopped while workflows run.
\* ========================================================================
\* `for _ in range(5)` of the RC7 release
NumReleases == 5

\* a _worker with no try/except around its steps
OnStepRaise_Uncaught == "died"

\* Where a _worker goes when one of its steps raises: the `except Exception`
\* clause that wraps the whole body.
OnStepRaise == "except"

\* trigger_autovp(target_altitude, on_done) / arm_and_takeoff_auto(on_done):
\* the caller only creates and starts the daemon thread.
SpawnWorkflow(t, kind, hasCb) ==
    /\ wfKind[t] = "none"
    /\ \A u \in WfIds : u < t => wfKind[u] # "none"
    /\ wfKind' = [wfKind EXCEPT ![t] = kind]
    /\ wfHasCb' = [wfHasCb EXCEPT ![t] = hasCb]
    /\ wfPc' = [wfPc EXCEPT ![t] = IF kind = "autovp" THEN "start" ELSE "loiter"]
    /\ UNCHANGED <<wfCalls, wfStepRaised, wfPulses, wfRel, wfTx>>
    /\ UNCHANGED <<connVars, hbVars, ioVars, histVars, uiVars, telVars>>

TriggerAutovp(t, hasCb) ==
    /\ t \in WfIds
    /\ SpawnWorkflow(t, "autovp", hasCb)

ArmAndTakeoffAuto(t, hasCb) ==
    /\ t \in WfIds
    /\ SpawnWorkflow(t, "armtk", hasCb)

\* `if on_done: on_done(ok, message)` inside the try block; cbRaises tells
\* whether the callback raises, which lands in the except clause.
InvokeOnDone(t, ok, cbRaises) ==
    IF wfHasCb[t]
    THEN /\ wfCalls' = [wfCalls EXCEPT ![t] = Append(@, ok)]
         /\ wfPc' = [wfPc EXCEPT ![t] = IF cbRaises THEN OnStepRaise ELSE "done"]
    ELSE /\ wfPc' = [wfPc EXCEPT ![t] = "done"]
         /\ UNCHANGED wfCalls

\* log with transmission tx after it
Sent(log, tx) ==
    IF log # <<>> /\ log[Len(log)] = tx THEN log ELSE Append(log, tx)

\* One command helper call (set_param, set_rc_override, set_mode, arm): it
\* returns at once when self._conn is None, otherwise it sends tx or raises.
\* next is where the worker continues when the helper returns.
CommandStep(t, raises, next, tx) ==
    IF conn # 0 /\ raises
    THEN /\ wfPc' = [wfPc EXCEPT ![t] = OnStepRaise]
         /\ wfStepRaised' = [wfStepRaised EXCEPT ![t] = TRUE]
         /\ UNCHANGED wfTx
    ELSE /\ wfPc' = [wfPc EXCEPT ![t] = next]
         /\ wfTx' = IF conn # 0 THEN [wfTx EXCEPT ![t] = Sent(@, tx)]
                    ELSE wfTx
         /\ UNCHANGED wfStepRaised

\* trigger_autovp._worker: the not-connected test
AvStart(t, cbRaises) ==
    /\ wfPc[t] = "start"
    /\ IF conn = 0
       THEN InvokeOnDone(t, FALSE, cbRaises)
       ELSE /\ wfPc' = [wfPc EXCEPT ![t] = "param"]
            /\ UNCHANGED wfCalls
    /\ UNCHANGED <<wfKind, wfHasCb, wfStepRaised, wfPulses, wfRel, wfTx>>
    /\ UNCHANGED <<connVars, hbVars, ioVars, histVars, uiVars, telVars>>

\* step 1: set_param("USR_AUTOVP_ALT", ...), then sleep 0.5 s
AvParam(t, raises) ==
    /\ wfPc[t] = "param"
    /\ CommandStep(t, raises, "pulse", "param")
    /\ UNCHANGED <<wfKind, wfHasCb, wfCalls, wfPulses, wfRel>>
    /\ UNCHANGED <<connVars, hbVars, ioVars, histVars, uiVars, telVars>>

\* step 2: `while time.monotonic() < t_end: set_rc_override(7, 1900)`;
\* more tells whether the 1.5 s window is still open.
AvPulse(t, more, raises) ==
    /\ wfPc[t] = "pulse"
    /\ IF more
       THEN /\ wfPulses[t] < MaxPulses
            /\ wfPulses' = [wfPulses EXCEPT ![t] = @ + 1]
            /\ CommandStep(t, raises, "pulse", "rc7_1900")
       ELSE /\ wfPulses[t] >= 1
            /\ wfPc' = [wfPc EXCEPT ![t] = "release"]
            /\ UNCHANGED <<wfPulses, wfStepRaised, wfTx>>
    /\ UNCHANGED <<wfKind, wfHasCb, wfCalls, wfRel>>
    /\ UNCHANGED <<connVars, hbVars, ioVars, histVars, uiVars, telVars>>

\* step 3: `for _ in range(5): set_rc_override(7, 1100)`
AvRelease(t, raises) ==
    /\ wfPc[t] = "release"
    /\ wfRel' = [wfRel EXCEPT ![t] = @ + 1]
    /\ CommandStep(t, raises,
                   IF wfRel[t] + 1 = NumReleases THEN "cb_ok" ELSE "release",
                   "rc7_1100")
    /\ UNCHANGED <<wfKind, wfHasCb, wfCalls, wfPulses>>
    /\ UNCHANGED <<connVars, hbVars, ioVars, histVars, uiVars, telVars>>

\* a _worker that goes from the LOITER change straight to the AUTO change
AtLoiter_SkipsArm(t, raises) ==
    /\ wfPc[t] = "loiter"
    /\ CommandStep(t, raises, "auto", "mode_loiter")
    /\ UNCHANGED <<wfKind, wfHasCb, wfCalls, wfPulses, wfRel>>
    /\ UNCHANGED <<connVars, hbVars, ioVars, histVars, uiVars, telVars>>

\* arm_and_takeoff_auto._worker: set_mode("LOITER"), then sleep 2 s
AtLoiter(t, raises) ==
    /\ wfPc[t] = "loiter"
    /\ CommandStep(t, raises, "arm", "mode_loiter")
    /\ UNCHANGED <<wfKind, wfHasCb, wfCalls, wfPulses, wfRel>>
    /\ UNCHANGED <<connVars, hbVars, ioVars, histVars, uiVars, telVars>>

\* arm(), then sleep 3 s
AtArm(t, raises) ==
    /\ wfPc[t] = "arm"
    /\ CommandStep(t, raises, "auto", "arm")
    /\ UNCHANGED <<wfKind, wfHasCb, wfCalls, wfPulses, wfRel>>
    /\ UNCHANGED <<connVars, hbVars, ioVars, histVars, uiVars, telVars>>

\* set_mode("AUTO")
AtAuto(t, raises) ==
    /\ wfPc[t] = "auto"
    /\ CommandStep(t, raises, "cb_ok", "mode_auto")
    /\ UNCHANGED <<wfKind, wfHasCb, wfCalls, wfPulses, wfRel>>
    /\ UNCHANGED <<connVars, hbVars, ioVars, histVars, uiVars, telVars>>

\* the last statement of the try block: on_done(True, ...)
WfReportSuccess(t, cbRaises) ==
    /\ wfPc[t] = "cb_ok"
    /\ InvokeOnDone(t, TRUE, cbRaises)
    /\ UNCHANGED <<wfKind, wfHasCb, wfStepRaised, wfPulses, wfRel, wfTx>>
    /\ UNCHANGED <<connVars, hbVars, ioVars, histVars, uiVars, telVars>>

\* the except clause: log, then on_done(False, ...); an exception raised
\* here leaves _worker and ends the thread.
WfExcept(t, cbRaises) ==
    /\ wfPc[t] = "except"
    /\ IF wfHasCb[t]
       THEN /\ wfCalls' = [wfCalls EXCEPT ![t] = Append(@, FALSE)]
            /\ wfPc' = [wfPc EXCEPT ![t] = IF cbRaises THEN "died" ELSE "done"]
       ELSE /\ wfPc' = [wfPc EXCEPT ![t] = "done"]
            /\ UNCHANGED wfCalls
    /\ UNCHANGED <<wfKind, wfHasCb, wfStepRaised, wfPulses, wfRel, wfTx>>
    /\ UNCHANGED <<connVars, hbVars, ioVars, histVars, uiVars, telVars>>

InitSpecWf ==
    /\ InitConn \/ InitStarted
    /\ InitHb
    /\ InitIo
    /\ InitHist
    /\ InitWf
    /\ InitUi
    /\ InitTel

\* The workflows, and of the connection what they can observe: stop() and
\* the IO worker's way to the point where join() returns or times out.
NextWf ==
    \/ \E t \in WfIds, cb \in BOOLEAN : TriggerAutovp(t, cb)
    \/ \E t \in WfIds, cb \in BOOLEAN : ArmAndTakeoffAuto(t, cb)
    \/ \E t \in WfIds, r \in BOOLEAN : AvStart(t, r)
    \/ \E t \in WfIds, r \in BOOLEAN : AvParam(t, r)
    \/ \E t \in WfIds, more \in BOOLEAN, r \in BOOLEAN : AvPulse(t, more, r)
    \/ \E t \in WfIds, r \in BOOLEAN : AvRelease(t, r)
    \/ \E t \in WfIds, r \in BOOLEAN : AtLoiter(t, r)
    \/ \E t \in WfIds, r \in BOOLEAN : AtArm(t, r)
    \/ \E t \in WfIds, r \in BOOLEAN : AtAuto(t, r)
    \/ \E t \in WfIds, r \in BOOLEAN : WfReportSuccess(t, r)
    \/ \E t \in WfIds, r \in BOOLEAN : WfExcept(t, r)
    \/ StopCall
    \/ JoinReturns
    \/ JoinTimeout
    \/ \E w \in WorkerIds : IoBurst(w)
    \/ \E w \in WorkerIds : IoCheck(w)

SpecWf == InitSpecWf /\ [][NextWf]_vars

WfEnded(t) == wfPc[t] \in {"done", "died"}

\* C9 (as claimed): a workflow called with an on_done callback invokes it
\* exactly once by the time its worker ends, on every path.
C9_CallbackExactlyOnce ==
    \A t \in WfIds : (wfHasCb[t] /\ WfEnded(t)) => Len(wfCalls[t]) = 1

\* C10: an exception raised by a step of a workflow (parameter write, RC
\* override, mode change, arm) is caught inside the worker, which goes to
\* its except clause and reports on_done(False, ...); the step moves nothing
\* but that worker, so the calling thread is not affected.
C10_StepExceptionReportedAsFailure ==
    /\ [][ \A t \in WfIds :
             (wfStepRaised'[t] /\ ~wfStepRaised[t]) =>
                 /\ wfPc'[t] = "except"
                 /\ UNCHANGED <<connVars, wfCalls, wfKind, wfHasCb>>
                 /\ \A u \in WfIds \ {t} : wfPc'[u] = wfPc[u] ]_vars
    /\ []( \A t \in WfIds :
             (wfStepRaised[t] /\ wfHasCb[t] /\ WfEnded(t))
                 => wfCalls[t] = <<FALSE>> )

\* C10 witness: a release of the RC channel raised after the parameter write
\* and the pulses went out, and the worker has ended having reported failure.
C10_Witness ==
    \E t \in WfIds :
        /\ wfKind[t] = "autovp"
        /\ wfStepRaised[t]
        /\ wfRel[t] >= 1
        /\ wfPc[t] = "done"
        /\ wfCalls[t] = <<FALSE>>

\* ========================================================================
\* Parameter store (SpecParams): ParamsScreen's handlers, all of which run
\* on the UI thread, one whole handler per step, and the Kivy clock that
\* counts the watchdog timer down. Values are in units of 1e-7.
\* ========================================================================
\* `abs(self._modified[name] - value) < 1e-6`
WRITE_ACK_TOL == 10
\* `abs(new_value - original) > 1e-7`
EDIT_TOL == 1
\* Clock.schedule_once(self._on_load_timeout, 10.0) in on_refresh
LOAD_FIRST_S == 10
\* Clock.schedule_once(self._on_load_timeout, 5.0) in _on_param_received
LOAD_SILENCE_S == 5
\* ParamsScreen._INT_TYPES and the wire types of the two parameters
INT_TYPES == 1..8
ParamType(n) == IF n = "SR0_POSITION" THEN 4 ELSE 9
\* 1e39, a float that param_set_send cannot pack as a 32-bit float
\* (struct.pack raises OverflowError); written as a value above all others.
BeyondFloat32 == 2000000000
PackRaises(v) == v = BeyondFloat32

\* Values a PARAM_VALUE reports, totals it declares, texts the user types.
VehicleVals(n) == IF ParamType(n) \in INT_TYPES THEN {0, 10000000}
                  ELSE {0, 9, 10}
DeclaredCounts == {2, 3}
EditTexts == {"1e-07", "1e-06", "1.5", "1e39", "abc"}

Abs(x) == IF x < 0 THEN 0 - x ELSE x

\* float(new_text); NoVal stands for the ValueError
FloatOf(text) ==
    CASE text = "1e-07" -> 1
      [] text = "1e-06" -> 10
      [] text = "1.5" -> 15000000
      [] text = "1e39" -> BeyondFloat32
      [] OTHER -> NoVal

\* float(int(x)): truncation to a whole number
IntTrunc(v) == IF v = BeyondFloat32 THEN v ELSE (v \div 10000000) * 10000000

\* the try block of on_param_edited
ParseEdit(n, text) ==
    IF FloatOf(text) = NoVal THEN NoVal
    ELSE IF ParamType(n) \in INT_TYPES THEN IntTrunc(FloatOf(text))
    ELSE FloatOf(text)

\* dict operations on self._modified (Python dicts keep insertion order)
IsPendingIn(d, n) == \E i \in 1..Len(d) : d[i].name = n
StagedIn(d, n) == d[CHOOSE i \in 1..Len(d) : d[i].name = n].value
DictSet(d, n, v) ==
    IF IsPendingIn(d, n)
    THEN [i \in 1..Len(d) |-> IF d[i].name = n
                              THEN [name |-> n, value |-> v] ELSE d[i]]
    ELSE Append(d, [name |-> n, value |-> v])
DictDel(d, n) == SelectSeq(d, LAMBDA e : e.name # n)
\* len(self._params)
Received(ps) == Cardinality({m \in ParamNames : ps[m] # NoVal})

\* an acknowledgement test that also accepts a difference of exactly 1e-6
WriteAcked_Inclusive(staged, value) == Abs(staged - value) <= WRITE_ACK_TOL

\* `abs(self._modified[name] - value) < 1e-6`
WriteAcked(staged, value) == Abs(staged - value) < WRITE_ACK_TOL

\* a completion test that waits for one parameter more than declared
LoadComplete_OneMore(received, count) == received > count

\* `received >= count` of the bulk-load completion test
LoadComplete(received, count) == received >= count

\* a handler that does not cancel the watchdog when the download completes
WatchdogAfterReceive_KeptOnComplete(stillLoading, complete) ==
    IF stillLoading THEN LOAD_SILENCE_S ELSE timeout_left

\* a handler that leaves the pending watchdog timer running as it is
WatchdogAfterReceive_NoRearm(stillLoading, complete) ==
    IF complete THEN NoVal ELSE timeout_left

\* The watchdog timer on leaving _on_param_received: cancelled when the
\* download completed, cancelled and re-armed while it goes on.
WatchdogAfterReceive(stillLoading, complete) ==
    IF stillLoading THEN LOAD_SILENCE_S
    ELSE IF complete THEN NoVal ELSE timeout_left

\* a write-ack verification that also runs during a bulk download
Verifies_AlsoWhileLoading(isLoading, pending) == pending

\* `if not self._loading and name in self._modified:`
Verifies(isLoading, pending) == ~isLoading /\ pending

\* ParamsScreen._on_param_received(data) for PARAM_VALUE(n, v) declaring a
\* total of c parameters. Of a feedback text the model keeps the kind, the
\* parameter name and the counts, not the formatted value.
OnParamReceived(n, v, c) ==
    LET params1 == [params EXCEPT ![n] = v]
        orig1 == IF original_values[n] = NoVal
                 THEN [original_values EXCEPT ![n] = v]
                 ELSE original_values
        received == Received(params1)
        verify == Verifies(loading, IsPendingIn(modified, n))
        acked == verify /\ WriteAcked(StagedIn(modified, n), v)
        complete == loading /\ LoadComplete(received, c)
        loading1 == loading /\ ~complete
    IN  /\ param_count' = c
        /\ params' = params1
        /\ modified' = IF acked THEN DictDel(modified, n) ELSE modified
        /\ original_values' = IF acked THEN [orig1 EXCEPT ![n] = v] ELSE orig1
        /\ loading' = loading1
        /\ timeout_left' = WatchdogAfterReceive(loading1, complete)
        /\ feedback' =
             IF complete
             THEN [kind |-> "loaded", name |-> "", a |-> received, b |-> 0]
             ELSE IF acked
             THEN [kind |-> "written", name |-> n, a |-> 0, b |-> 0]
             ELSE IF verify
             THEN [kind |-> "write_failed", name |-> n, a |-> 0, b |-> 0]
             ELSE feedback
        /\ parTx' = <<>>
        /\ parOp' = [op |-> "recv", name |-> n, value |-> v]
        /\ silence' = 0
        /\ UNCHANGED <<connVars, hbVars, ioVars, histVars, wfVars, busVars, telVars>>

\* a watchdog that also throws the staged edits away
OnLoadTimeout_DropsPending ==
    /\ timeout_left = 0
    /\ loading' = FALSE
    /\ timeout_left' = NoVal
    /\ modified' = <<>>
    /\ feedback' = [kind |-> "timeout", name |-> "",
                    a |-> Received(params), b |-> param_count]
    /\ parTx' = <<>>
    /\ parOp' = [op |-> "timeout", name |-> "", value |-> 0]
    /\ UNCHANGED <<params, original_values, param_count, silence>>
    /\ UNCHANGED <<connVars, hbVars, ioVars, histVars, wfVars, busVars, telVars>>

\* ParamsScreen._on_load_timeout(dt): the watchdog timer has run down.
OnLoadTimeout ==
    /\ timeout_left = 0
    /\ loading' = FALSE
    /\ timeout_left' = NoVal
    /\ feedback' = [kind |-> "timeout", name |-> "",
                    a |-> Received(params), b |-> param_count]
    /\ parTx' = <<>>
    /\ parOp' = [op |-> "timeout", name |-> "", value |-> 0]
    /\ UNCHANGED <<params, original_values, modified, param_count, silence>>
    /\ UNCHANGED <<connVars, hbVars, ioVars, histVars, wfVars, busVars, telVars>>

\* One second passes on the Kivy clock while the watchdog timer is pending;
\* a timer that has run down fires before the clock moves on.
ParTick ==
    /\ timeout_left > 0
    /\ timeout_left' = timeout_left - 1
    /\ silence' = silence + 1
    /\ parTx' = <<>>
    /\ parOp' = [op |-> "tick", name |-> "", value |-> 0]
    /\ UNCHANGED <<params, original_values, modified, param_count, loading,
                   feedback>>
    /\ UNCHANGED <<connVars, hbVars, ioVars, histVars, wfVars, busVars, telVars>>

\* ParamsScreen.on_refresh(): the Refresh button, which is disabled from
\* here until the download ends. request_all_params sends
\* PARAM_REQUEST_LIST unless the client holds no connection.
OnRefresh ==
    /\ ~loading
    /\ parOp' = [op |-> "refresh", name |-> "", value |-> 0]
    /\ IF ~running
       THEN /\ feedback' = [kind |-> "not_connected", name |-> "",
                            a |-> 0, b |-> 0]
            /\ parTx' = <<>>
            /\ UNCHANGED <<params, original_values, modified, param_count,
                           loading, timeout_left, silence>>
       ELSE /\ params' = [n \in ParamNames |-> NoVal]
            /\ original_values' = [n \in ParamNames |-> NoVal]
            /\ modified' = <<>>
            /\ param_count' = 0
            /\ loading' = TRUE
            /\ feedback' = [kind |-> "loading", name |-> "", a |-> 0, b |-> 0]
            /\ timeout_left' = LOAD_FIRST_S
            /\ silence' = 0
            /\ parTx' = IF conn # 0
                        THEN << [msg |-> "PARAM_REQUEST_LIST", name |-> "",
                                 value |-> 0] >>
                        ELSE <<>>
    /\ UNCHANGED <<connVars, hbVars, ioVars, histVars, wfVars, busVars, telVars>>

\* ParamsScreen.on_param_edited(name, new_text): the text field of a row
OnParamEdited(n, text) ==
    /\ parOp' = [op |-> "edit", name |-> n, value |-> 0]
    /\ parTx' = <<>>
    /\ IF params[n] = NoVal
       THEN UNCHANGED <<modified, feedback>>
       ELSE IF ParseEdit(n, text) = NoVal
       THEN /\ feedback' = [kind |-> "invalid", name |-> n, a |-> 0, b |-> 0]
            /\ UNCHANGED modified
       ELSE LET new_value == ParseEdit(n, text)
                original == IF original_values[n] # NoVal
                            THEN original_values[n] ELSE params[n]
                modified1 ==
                    IF Abs(new_value - original) > EDIT_TOL
                    THEN DictSet(modified, n, new_value)
                    ELSE DictDel(modified, n)
            IN  /\ modified' = modified1
                /\ feedback' = [kind |-> IF Len(modified1) > 0
                                         THEN "modified" ELSE "no_changes",
                                name |-> "", a |-> Len(modified1), b |-> 0]
    /\ UNCHANGED <<params, original_values, param_count, loading,
                   timeout_left, silence>>
    /\ UNCHANGED <<connVars, hbVars, ioVars, histVars, wfVars, busVars, telVars>>

\* The PARAM_SET requests _do_write gets out: set_param is called for the
\* pending names in dict order and returns without sending when the client
\* holds no connection; the first send that raises ends the loop.
FirstRaise(d) ==
    IF \E i \in 1..Len(d) : PackRaises(d[i].value)
    THEN CHOOSE i \in 1..Len(d) :
            /\ PackRaises(d[i].value)
            /\ \A j \in 1..(i - 1) : ~PackRaises(d[j].value)
    ELSE Len(d) + 1
DoWriteSends(d) ==
    IF conn = 0 THEN <<>>
    ELSE [i \in 1..(FirstRaise(d) - 1) |->
            [msg |-> "PARAM_SET", name |-> d[i].name, value |-> d[i].value]]

\* ParamsScreen.on_write_params(), the confirmation popup of _confirm_write
\* and, when the user presses Write, _do_write.
OnWriteParams(confirm) ==
    /\ parTx' = IF modified # <<>> /\ running /\ confirm
                THEN DoWriteSends(modified) ELSE <<>>
    /\ parOp' = [op |-> IF modified # <<>> /\ running /\ confirm
                        THEN "write" ELSE "write_none",
                 name |-> "", value |-> 0]
    /\ feedback' =
         IF modified = <<>> THEN feedback
         ELSE IF ~running
         THEN [kind |-> "not_connected", name |-> "", a |-> 0, b |-> 0]
         ELSE IF ~confirm THEN feedback
         ELSE IF conn # 0 /\ FirstRaise(modified) <= Len(modified)
         THEN feedback
         ELSE [kind |-> "writing", name |-> "", a |-> Len(modified), b |-> 0]
    /\ UNCHANGED <<params, original_values, modified, param_count, loading,
                   timeout_left, silence>>
    /\ UNCHANGED <<connVars, hbVars, ioVars, histVars, wfVars, busVars, telVars>>

InitSpecParams ==
    /\ InitConn \/ InitStarted
    /\ InitHb
    /\ InitIo
    /\ InitHist
    /\ InitWf
    /\ InitUi
    /\ InitTel

NextParams ==
    \/ \E n \in ParamNames, c \in DeclaredCounts :
          \E v \in VehicleVals(n) : OnParamReceived(n, v, c)
    \/ OnLoadTimeout
    \/ ParTick
    \/ OnRefresh
    \/ \E n \in ParamNames, text \in EditTexts : OnParamEdited(n, text)
    \/ \E confirm \in BOOLEAN : OnWriteParams(confirm)

SpecParams == InitSpecParams /\ [][NextParams]_vars

\* C12: when a ParamValue arrives outside a bulk download for a name with a
\* staged edit, an echoed value less than 1e-6 from the staged one removes
\* the name from the pending edits and becomes its baseline; any other value
\* leaves the name pending with its staged value and a write-failed message
\* is put up.
C12_WriteAckVerification ==
    [][ \A n \in ParamNames :
          (/\ parOp'.op = "recv"
           /\ parOp'.name = n
           /\ ~loading
           /\ IsPendingIn(modified, n))
          => IF Abs(StagedIn(modified, n) - parOp'.value) < 10
             THEN /\ ~IsPendingIn(modified', n)
                  /\ original_values'[n] = parOp'.value
             ELSE /\ IsPendingIn(modified', n)
                  /\ StagedIn(modified', n) = StagedIn(modified, n)
                  /\ feedback'.kind = "write_failed"
                  /\ feedback'.name = n ]_vars

\* C12 witness: the vehicle echoed 9e-7 for a staged 1e-6; the name is no
\* longer pending and its baseline is the echoed value.
C12_Witness ==
    /\ parOp = [op |-> "recv", name |-> "USR_AUTOVP_ALT", value |-> 9]
    /\ feedback.kind = "written"
    /\ ~IsPendingIn(modified, "USR_AUTOVP_ALT")
    /\ original_values["USR_AUTOVP_ALT"] = 9

C14_CommitSendsEachPending ==
    [][ /\ parOp'.op = "edit" => parTx' = <<>>
        /\ (\E i \in 1..Len(parTx') : parTx'[i].msg = "PARAM_SET")
              => parOp'.op = "write"
        /\ parOp'.op = "write"
              => parTx' = [i \in 1..Len(modified) |->
                             [msg |-> "PARAM_SET", name |-> modified[i].name,
                              value |-> modified[i].value]] ]_vars

\* C15 (as claimed): during a bulk download, 5 seconds without a ParamValue
\* end the download; it never waits longer.
C15_FiveSecondsOfSilenceEndDownload ==
    loading => silence <= 5

\* C15 (amended): during a bulk download the silence that ends it is 5
\* seconds once a ParamValue has been received and 10 seconds before the
\* first one; the download never waits longer, and the timeout leaves it
\* not loading, with no timer, reporting the number of distinct names
\* received against the declared total.
C15_WatchdogBoundsSilence ==
    /\ [](loading => /\ timeout_left # NoVal
                     /\ silence <= IF Received(params) > 0 THEN 5 ELSE 10)
    /\ [][ parOp'.op = "timeout" =>
             /\ loading
             /\ silence = IF Received(params) > 0 THEN 5 ELSE 10
             /\ ~loading'
             /\ timeout_left' = NoVal
             /\ feedback' = [kind |-> "timeout", name |-> "",
                             a |-> Received(params), b |-> param_count]
             /\ UNCHANGED <<params, original_values, modified>> ]_vars

\* C15 witness: a download that declared 3 parameters timed out with 2
\* received.
C15_Witness ==
    /\ parOp.op = "timeout"
    /\ ~loading
    /\ feedback = [kind |-> "timeout", name |-> "", a |-> 2, b |-> 3]
    /\ silence = 5

\* C16: in a bulk download, the ParamValue that brings the number of
\* distinct names received up to the declared total ends the download in
\* its own handling: loading is false and no watchdog timer is left.
C16_CompletionEndsDownloadAtOnce ==
    [][ (/\ parOp'.op = "recv"
         /\ loading
         /\ Received(params') >= param_count')
        => /\ ~loading'
           /\ timeout_left' = NoVal
           /\ feedback'.kind = "loaded" ]_vars

\* C16 witness: both declared parameters arrived and the download ended with
\* the watchdog cancelled.
C16_Witness ==
    /\ parOp.op = "recv"
    /\ feedback = [kind |-> "loaded", name |-> "", a |-> 2, b |-> 0]
    /\ param_count = 2
    /\ ~loading
    /\ timeout_left = NoVal

\* ========================================================================
\* Event bus (SpecBus): the IO worker inside EventBus.emit, one statement
\* per step, the UI thread subscribing and unsubscribing, and the Kivy main
\* loop running what Clock.schedule_once was given. One event type.
\* ========================================================================
\* The callbacks screens subscribe: bound methods of the UI layer.
Callbacks == {"on_data", "on_param_received"}

\* EventBus.subscribe(event_type, callback), on the UI thread; the list may
\* hold a callback more than once.
Subscribe(cb) ==
    /\ lockHolder = "none"
    /\ Len(subscribers) < MaxSubs
    /\ subscribers' = Append(subscribers, cb)
    /\ UNCHANGED <<lockHolder, emitPc, emitCbs, clockQueue, ran, nEmits>>
    /\ UNCHANGED <<connVars, hbVars, ioVars, histVars, wfVars, parVars, telVars>>

\* list.remove(callback): the first occurrence goes
RemoveFirst(sq, cb) ==
    LET i == CHOOSE k \in 1..Len(sq) :
                /\ sq[k] = cb
                /\ \A j \in 1..(k - 1) : sq[j] # cb
    IN  [k \in 1..(Len(sq) - 1) |-> IF k < i THEN sq[k] ELSE sq[k + 1]]

\* EventBus.unsubscribe(event_type, callback); a callback that is not in the
\* list is silently ignored.
Unsubscribe(cb) ==
    /\ lockHolder = "none"
    /\ subscribers' = IF \E k \in 1..Len(subscribers) : subscribers[k] = cb
                      THEN RemoveFirst(subscribers, cb)
                      ELSE subscribers
    /\ UNCHANGED <<lockHolder, emitPc, emitCbs, clockQueue, ran, nEmits>>
    /\ UNCHANGED <<connVars, hbVars, ioVars, histVars, wfVars, parVars, telVars>>

\* emit(): `with self._lock:` is entered by the emitting thread.
EmitAcquire ==
    /\ emitPc = "idle"
    /\ nEmits < MaxEmits
    /\ lockHolder = "none"
    /\ lockHolder' = "io"
    /\ emitPc' = "snapshot"
    /\ nEmits' = nEmits + 1
    /\ UNCHANGED <<subscribers, emitCbs, clockQueue, ran>>
    /\ UNCHANGED <<connVars, hbVars, ioVars, histVars, wfVars, parVars, telVars>>

\* `callbacks = list(self._subscribers.get(event_type, []))`, then the with
\* block ends and the lock is released.
EmitSnapshot ==
    /\ emitPc = "snapshot"
    /\ emitCbs' = subscribers
    /\ lockHolder' = "none"
    /\ emitPc' = "schedule"
    /\ UNCHANGED <<subscribers, clockQueue, ran, nEmits>>
    /\ UNCHANGED <<connVars, hbVars, ioVars, histVars, wfVars, parVars, telVars>>

\* an emit that calls the next callback itself instead of scheduling it
EmitDeliver_Direct ==
    /\ ran' = Append(ran, [cb |-> Head(emitCbs), thread |-> "io"])
    /\ UNCHANGED clockQueue

\* `Clock.schedule_once(lambda dt, _cb=cb, _d=data: _cb(_d), 0)` for the
\* next callback of the snapshot
EmitDeliver ==
    /\ clockQueue' = Append(clockQueue, Head(emitCbs))
    /\ UNCHANGED ran

\* One pass of `for cb in callbacks:`, or the return of emit after the last.
EmitSchedule ==
    /\ emitPc = "schedule"
    /\ IF emitCbs = <<>>
       THEN /\ emitPc' = "idle"
            /\ UNCHANGED <<emitCbs, clockQueue, ran>>
       ELSE /\ EmitDeliver
            /\ emitCbs' = Tail(emitCbs)
            /\ UNCHANGED emitPc
    /\ UNCHANGED <<subscribers, lockHolder, nEmits>>
    /\ UNCHANGED <<connVars, hbVars, ioVars, histVars, wfVars, parVars, telVars>>

\* The Kivy main loop, at its next frame, calls the oldest scheduled lambda,
\* which calls the callback on the UI thread.
ClockFrame ==
    /\ clockQueue # <<>>
    /\ ran' = Append(ran, [cb |-> Head(clockQueue), thread |-> "ui"])
    /\ clockQueue' = Tail(clockQueue)
    /\ UNCHANGED <<subscribers, lockHolder, emitPc, emitCbs, nEmits>>
    /\ UNCHANGED <<connVars, hbVars, ioVars, histVars, wfVars, parVars, telVars>>

NextBus ==
    \/ \E cb \in Callbacks : Subscribe(cb)
    \/ \E cb \in Callbacks : Unsubscribe(cb)
    \/ EmitAcquire
    \/ EmitSnapshot
    \/ EmitSchedule
    \/ ClockFrame

SpecBus == Init /\ [][NextBus]_vars

\* C18: EventBus.emit never runs a subscriber callback on the emitting
\* thread: a callback is executed only by the UI loop, after emit scheduled
\* it; emit holds the subscriber lock only while it copies the list, not
\* while it schedules, and it returns having executed nothing itself.
C18_CallbacksRunOnlyOnUiLoop ==
    /\ [](/\ \A i \in 1..Len(ran) : ran[i].thread = "ui"
          /\ (emitPc \in {"schedule", "idle"} => lockHolder # "io"))
    /\ [][ ran' # ran =>
             /\ clockQueue # <<>>
             /\ ran' = Append(ran, [cb |-> Head(clockQueue), thread |-> "ui"])
             /\ UNCHANGED <<emitPc, emitCbs, lockHolder>> ]_vars

\* C18 witness: an emit with two subscribers has returned, one callback has
\* run on the UI loop and the other is still waiting in the clock's queue.
C18_Witness ==
    /\ emitPc = "idle"
    /\ nEmits >= 1
    /\ Len(ran) = 1
    /\ ran[1].thread = "ui"
    /\ Len(clockQueue) = 1


\* ========================================================================
\* Stream-rate requests and reconnection (Spec)
\* ========================================================================
\* The step by which worker w finishes _handle_message for a vehicle
\* heartbeat while the client is running.
HandlesVehicleHeartbeat(w) ==
    /\ running
    /\ workers[w] = "handle"
    /\ workers'[w] # "handle"
    /\ rx[w] \in VehicleHeartbeats

\* C11: within one connection, handling the first non-GCS heartbeat sets
\* armed from the heartbeat's armed bit and issues one stream-rate request,
\* and no later heartbeat of the connection issues a heartbeat-driven one.
C11_FirstHeartbeatRequestsStreamsOnce ==
    [][ \A w \in WorkerIds :
          HandlesVehicleHeartbeat(w) =>
             /\ armed' = rx[w].armed
             /\ IF connHbSeen
                THEN streams_requested /\ streams_requested'
                ELSE ~streams_requested /\ streams_requested' /\ conn # 0
      ]_vars

\* C17: a successful start() that follows a stop() leaves the
\* connection-scoped state reset (stream-requested flag false, message count
\* 0, first-message time unset, watchdog marker 0), and neither call changes
\* a VehicleState field or a history buffer.
C17_ReconnectResetsConnectionState ==
    [][ /\ ( /\ nCalls' # nCalls
             /\ lastCall' = "start_ok"
             /\ lastCall \in {"stop_joined", "stop_timeout", "stop_noop"} )
           => /\ streams_requested' = FALSE
              /\ msg_count' = 0
              /\ first_msg_set' = FALSE
              /\ last_watchdog_log' = 0
        /\ (nCalls' # nCalls \/ api' # api)
           => UNCHANGED <<armed, state_last_heartbeat, histVars>>
      ]_vars


\* ========================================================================
\* Cadence of the IO loop (SpecCadence): one connection whose worker is
\* always scheduled again (the 5 ms sleep ends, the thread runs), with a
\* transport that raises nothing and messages whose handlers raise nothing.
\* What the transport has queued at each recv_match is left open.
\* ========================================================================
QuietMessages == { m \in Messages : ~HandlerRaises(m) }

\* any step of worker w in such a connection
WorkerStep(w) ==
    \/ IoBurst(w)
    \/ IoCheck(w)
    \/ \E recv \in {"none", "msg"}, m \in QuietMessages : IoDrain(w, recv, m)
    \/ IoHandle(w, FALSE)
    \/ IoHeartbeat(w, FALSE)
    \/ IoStream(w, FALSE)
    \/ IoEmit(w, FALSE)

NextCadence ==
    \/ ClockTick
    \/ IoBurst(thread)
    \/ IoCheck(thread)
    \/ \E recv \in {"none", "msg"}, m \in QuietMessages :
          IoDrain(thread, recv, m)
    \/ IoHandle(thread, FALSE)
    \/ IoHeartbeat(thread, FALSE)
    \/ IoStream(thread, FALSE)
    \/ IoEmit(thread, FALSE)

SpecCadence ==
    /\ InitSpecHb
    /\ [][NextCadence]_vars
    /\ WF_vars(WorkerStep(thread))
    /\ WF_vars(ClockTick)

\* The step by which worker w transmits a GCS heartbeat from the loop.
SendsGcsHeartbeat(w) ==
    /\ workers[w] = "hb"
    /\ workers'[w] = "stream"
    /\ gcs_hb_sent_at'[w] = now
    /\ loop_now[w] - last_gcs_hb[w] >= GCS_HEARTBEAT_INTERVAL_S

\* C19: while the client runs, a GCS heartbeat is never transmitted less
\* than 1 s after the previous one sent in the loop, and once 1 s has passed
\* since that one the next is transmitted, whatever traffic arrives.
C19_GcsHeartbeatEverySecond ==
    /\ [][ \A w \in WorkerIds :
             (SendsGcsHeartbeat(w) /\ gcs_hb_sent_at[w] # -1)
                => now - gcs_hb_sent_at[w] >= GCS_HEARTBEAT_INTERVAL_S ]_vars
    /\ \A w \in WorkerIds :
          ( /\ gcs_hb_sent_at[w] # -1
            /\ now - gcs_hb_sent_at[w] >= GCS_HEARTBEAT_INTERVAL_S )
          ~> (now - gcs_hb_sent_at[w] < GCS_HEARTBEAT_INTERVAL_S)

\* C20: once a stream-rate request has been issued in a connection, the
\* request is issued again when 5 s have passed since the previous one,
\* whether or not messages are received.
C20_StreamRequestEveryFiveSeconds ==
    ( /\ streams_requested
      /\ now - last_stream_request_time >= STREAM_REQUEST_INTERVAL_S )
    ~> (now - last_stream_request_time < STREAM_REQUEST_INTERVAL_S)

\* ========================================================================
\* The DATA_UPDATED throttle of _io_loop (SpecEmit): iterations of the loop
\* against a clock of 50 ms steps, with screens subscribing to and
\* unsubscribing from DATA_UPDATED on the UI thread. The client is built
\* with an event bus (app/main.py:1682); what emit() does with the snapshot
\* is the subject of SpecBus.
\* ========================================================================
\* Last reading of the 50 ms clock.
MaxEmitTime == 9

\* DATA_EMIT_INTERVAL_S = 0.1, in steps of 50 ms
DATA_EMIT_INTERVAL_S == 2

EmTick ==
    /\ emNow < MaxEmitTime
    /\ emNow' = emNow + 1
    /\ UNCHANGED <<last_data_emit, nSnapshots, lastSnapshotAt, lastSkipAt>>
    /\ UNCHANGED <<connVars, hbVars, ioVars, histVars, wfVars, uiVars, vsVars,
                   cmdVars>>

\* EventBus.has_subscribers(DATA_UPDATED): bool() of the list, under the lock
HasSubscribers == subscribers # <<>>

\* an interval test that wants more than 100 ms
DataEmitDue_Strict(t) == t - last_data_emit > DATA_EMIT_INTERVAL_S

\* `now - last_data_emit >= DATA_EMIT_INTERVAL_S` for the iteration's now
DataEmitDue(t) == t - last_data_emit >= DATA_EMIT_INTERVAL_S

\* what an iteration that starts in this state does about the snapshot
EmitsSnapshot == DataEmitDue(emNow) /\ HasSubscribers

\* One iteration's `if self.event_bus and now - last_data_emit >= ...:`
\* block: the snapshot is built and emitted when has_subscribers() says so,
\* and last_data_emit becomes `now` whenever the interval test passed.
IoDataEmit ==
    /\ lockHolder = "none"
    /\ IF DataEmitDue(emNow)
       THEN /\ last_data_emit' = emNow
            /\ IF HasSubscribers
               THEN /\ nSnapshots' = nSnapshots + 1
                    /\ lastSnapshotAt' = emNow
                    /\ UNCHANGED lastSkipAt
               ELSE /\ lastSkipAt' = emNow
                    /\ UNCHANGED <<nSnapshots, lastSnapshotAt>>
       ELSE UNCHANGED <<last_data_emit, nSnapshots, lastSnapshotAt,
                        lastSkipAt>>
    /\ UNCHANGED emNow
    /\ UNCHANGED <<connVars, hbVars, ioVars, histVars, wfVars, uiVars, vsVars,
                   cmdVars>>

NextEmit ==
    \/ EmTick
    \/ IoDataEmit
    \/ \E cb \in Callbacks : Subscribe(cb)
    \/ \E cb \in Callbacks : Unsubscribe(cb)

SpecEmit == Init /\ [][NextEmit]_vars

\* 50 ms steps from the event recorded at t to now; an event that never
\* happened (-1) is further back than any interval.
StepsSince(t) == IF t = -1 THEN MaxEmitTime + DATA_EMIT_INTERVAL_S
                 ELSE emNow - t

\* C21 (as claimed): an iteration emits a DATA_UPDATED snapshot if and only
\* if a DATA_UPDATED subscriber exists at that moment and at least 100 ms
\* have elapsed since the last snapshot emission.
C21_SnapshotIffSubscriberAndInterval ==
    EmitsSnapshot <=>
        (HasSubscribers /\ StepsSince(lastSnapshotAt) >= DATA_EMIT_INTERVAL_S)

\* C21 (amended): an iteration emits a snapshot if and only if a subscriber
\* exists at that moment and at least 100 ms have elapsed both since the
\* last snapshot emission and since the last iteration that found an emit
\* due but had no subscriber; a snapshot is built only by such an iteration,
\* one at a time, and never without a subscriber.
C21_SnapshotIffSubscriberAndIntervalSinceDue ==
    /\ [](EmitsSnapshot <=>
            /\ HasSubscribers
            /\ StepsSince(lastSnapshotAt) >= DATA_EMIT_INTERVAL_S
            /\ StepsSince(lastSkipAt) >= DATA_EMIT_INTERVAL_S)
    /\ [][ nSnapshots' # nSnapshots =>
             /\ EmitsSnapshot
             /\ nSnapshots' = nSnapshots + 1
             /\ lastSnapshotAt' = emNow ]_vars

\* C21 witness: a snapshot was emitted, later an emit was due with nobody
\* subscribed, and a subscriber that arrived within 100 ms of that is waiting.
C21_Witness ==
    /\ nSnapshots >= 1
    /\ lastSkipAt > lastSnapshotAt
    /\ HasSubscribers
    /\ StepsSince(lastSnapshotAt) >= DATA_EMIT_INTERVAL_S
    /\ StepsSince(lastSkipAt) < DATA_EMIT_INTERVAL_S
    /\ ~EmitsSnapshot

\* ========================================================================
\* stop() against its worker (SpecStop): one connection, the call of stop()
\* and every way the worker can behave meanwhile. The worker thread is
\* scheduled again whenever it can take a step, and join() returns once the
\* thread has ended or its 5 s have passed.
\* ========================================================================
\* any step of worker w
WorkerRuns(w) ==
    \/ IoBurst(w)
    \/ IoCheck(w)
    \/ \E recv \in {"none", "raise", "msg"}, m \in Messages : IoDrain(w, recv, m)
    \/ \E r \in BOOLEAN : IoHandle(w, r)
    \/ \E r \in BOOLEAN : IoHeartbeat(w, r)
    \/ \E r \in BOOLEAN : IoStream(w, r)
    \/ \E r \in BOOLEAN : IoEmit(w, r)

\* join(timeout=5.0) returns, one way or the other
JoinEnds == JoinReturns \/ JoinTimeout

NextStop ==
    \/ StopCall
    \/ JoinReturns
    \/ JoinTimeout
    \/ \E w \in WorkerIds : IoBurst(w)
    \/ \E w \in WorkerIds : IoCheck(w)
    \/ \E w \in WorkerIds, recv \in {"none", "raise", "msg"}, m \in Messages :
          IoDrain(w, recv, m)
    \/ \E w \in WorkerIds, r \in BOOLEAN : IoHandle(w, r)
    \/ \E w \in WorkerIds, r \in BOOLEAN : IoHeartbeat(w, r)
    \/ \E w \in WorkerIds, r \in BOOLEAN : IoStream(w, r)
    \/ \E w \in WorkerIds, r \in BOOLEAN : IoEmit(w, r)

SpecStop ==
    /\ InitSpecHb
    /\ [][NextStop]_vars
    /\ WF_vars(JoinEnds)
    /\ \A w \in WorkerIds : WF_vars(WorkerRuns(w))

\* C22: stop() always returns to its caller, with the transport closed and
\* running cleared, even if the worker never leaves its receive-drain loop.
C22_StopAlwaysReturns ==
    (api = "stop_join") ~> (api = "idle" /\ ~running /\ conn = 0)

\* C22 witness: stop() has returned after its join timed out, and the worker
\* it waited for is still inside the receive-drain loop.
C22_Witness ==
    /\ lastCall = "stop_timeout"
    /\ api = "idle"
    /\ ~running
    /\ conn = 0
    /\ workers[lastJoined] \in {"drain", "handle"}

\* ------------------------------------------------------------------------
\* Telemetry: messages handed to _handle_message one after the other
\* ------------------------------------------------------------------------
TelemetryMessages == GpiMessages \cup VfrHudMessages \cup GpsRawMessages

\* The IO thread handles message m; telOp remembers it. A handler that
\* raises ends the thread, as in IoHandle.
TelHandle(m, sendRaises) ==
    /\ running /\ conn # 0
    /\ workers[thread] # "died"
    /\ HandleMessage(m, sendRaises)
    /\ telOp' = m
    /\ workers' = IF m.mtype = "CASS_SENSOR_RAW" /\ CassRaises(m)
                  THEN [workers EXCEPT ![thread] = "died"] ELSE workers
    /\ vehHbAt' = IF m.mtype = "HEARTBEAT" /\ m.vtype # MAV_TYPE_GCS
                  THEN now ELSE vehHbAt
    /\ UNCHANGED <<running, conn, conn_str, thread, stop_event,
                   last_watchdog_log, api, events, nCalls, lastCall,
                   prevCall, lastJoined, now>>
    /\ UNCHANGED <<loop_now, gcs_hb_sent_at, last_gcs_hb, rx, connHbSeen>>
    /\ UNCHANGED <<histVars, wfVars, uiVars, emVars, ws_a, ws_b, cmdVars>>

NextTel == \E m \in TelemetryMessages : TelHandle(m, FALSE)

SpecTel == InitSpecHb /\ [][NextTel]_vars

\* C23: handling a VFR_HUD never changes the relative altitude: alt_rel
\* keeps the value relative_alt/1000 that the last GLOBAL_POSITION_INT set,
\* while alt_amsl takes the VFR_HUD's alt.
C23_VfrHudKeepsRelativeAltitude ==
    [][ /\ telOp'.mtype = "GLOBAL_POSITION_INT" =>
             state'.alt_rel = telOp'.relative_alt
        /\ telOp'.mtype = "VFR_HUD" =>
             /\ state'.alt_rel = state.alt_rel
             /\ state'.alt_amsl = telOp'.alt * 1000 ]_vars

\* C23 witness: a GLOBAL_POSITION_INT with relative_alt = 50000 mm, then a
\* VFR_HUD with alt = 120.0: alt_rel is 50.0 m and alt_amsl is 120.0 m.
C23_Witness ==
    /\ telOp.mtype = "VFR_HUD"
    /\ telOp.alt = 120
    /\ state.alt_rel = 50000
    /\ state.alt_amsl = 120000
    /\ state.lat = 352305000

\* C24: a GLOBAL_POSITION_INT whose hdg is 65535 leaves heading_deg as it
\* was and still updates position, altitudes and velocities; any other hdg
\* makes heading_deg hdg/100.
C24_HeadingSentinelPreserved ==
    [][ telOp'.mtype = "GLOBAL_POSITION_INT" =>
          /\ state'.lat = telOp'.lat /\ state'.lon = telOp'.lon
          /\ state'.alt_amsl = telOp'.alt
          /\ state'.alt_rel = telOp'.relative_alt
          /\ state'.vx = telOp'.vx /\ state'.vy = telOp'.vy
          /\ state'.vz = telOp'.vz
          /\ state'.heading_deg =
                 IF telOp'.hdg = 65535 THEN state.heading_deg
                 ELSE telOp'.hdg ]_vars

\* C24 witness: heading_deg was 270 degrees (from a VFR_HUD) and a
\* GLOBAL_POSITION_INT with hdg = 65535 moved the position and kept it.
C24_Witness ==
    /\ telOp.mtype = "GLOBAL_POSITION_INT"
    /\ telOp.hdg = 65535
    /\ state.heading_deg = 27000
    /\ state.lat = telOp.lat
    /\ state.alt_amsl = telOp.alt
    /\ state.vz = telOp.vz

\* C25 as stated: after a GPS_RAW_INT, hdop is 99.99 when eph is 9999 or
\* more and eph/100 for every eph below 9999.
C25_HdopIsEphOver100Below9999 ==
    telOp.mtype = "GPS_RAW_INT" =>
        state.hdop = IF telOp.eph >= 9999 THEN 9999 ELSE telOp.eph

\* C25: after a GPS_RAW_INT, hdop is 99.99 when eph is 0 or is 9999 or more,
\* and eph/100 for every eph from 1 to 9998.
C25_HdopSentinels ==
    telOp.mtype = "GPS_RAW_INT" =>
        state.hdop = IF telOp.eph = 0 \/ telOp.eph >= 9999 THEN 9999
                     ELSE telOp.eph

\* C25 witness: a GPS_RAW_INT with eph = 0 and a 3-D fix was handled, and
\* hdop reads 99.99.
C25_Witness ==
    /\ telOp.mtype = "GPS_RAW_INT"
    /\ telOp.eph = 0
    /\ state.fix_type = 3
    /\ state.hdop = 9999

\* ------------------------------------------------------------------------
\* Heartbeats of vehicles and of other ground stations, as time passes
\* ------------------------------------------------------------------------
NextHbFilter ==
    \/ ClockTick
    \/ \E m \in Messages \ {mm \in Messages : HandlerRaises(mm)},
          r \in BOOLEAN : TelHandle(m, r)

SpecHbFilter == InitSpecHb /\ [][NextHbFilter]_vars

\* C27: a heartbeat whose type is GCS changes none of the last-heartbeat
\* timestamps, armed, flight mode, system status, the target system and
\* component ids and the stream-requested flag, and it triggers no
\* stream-rate request.
C27_GcsHeartbeatChangesNothing ==
    [][ (telOp'.mtype = "HEARTBEAT" /\ telOp'.vtype = MAV_TYPE_GCS) =>
          /\ UNCHANGED <<last_heartbeat_time, state_last_heartbeat, armed,
                         last_sysid, last_compid, streams_requested,
                         last_stream_request_time>>
          /\ state'.flight_mode = state.flight_mode
          /\ state'.system_status = state.system_status ]_vars

\* C27 witness: a GCS heartbeat (system 255, armed bit set, status 3) was
\* handled at least a second after a disarmed vehicle's heartbeat, and every
\* field still reads what the vehicle's heartbeat left.
C27_Witness ==
    /\ telOp.mtype = "HEARTBEAT" /\ telOp.vtype = MAV_TYPE_GCS
    /\ msg_count = 2
    /\ last_heartbeat_time >= 1 /\ now > last_heartbeat_time
    /\ state_last_heartbeat = last_heartbeat_time
    /\ ~armed
    /\ last_sysid = 1 /\ last_compid = 1
    /\ state.flight_mode = "LOITER" /\ state.system_status = 4
    /\ streams_requested

\* ------------------------------------------------------------------------
\* The status log: STATUSTEXT messages, numbered in their order of receipt
\* ------------------------------------------------------------------------
MaxStatus == 250

StatusTextArrives ==
    /\ nStatus < MaxStatus
    /\ TelHandle(StatusText(nStatus + 1), FALSE)

NextLog == StatusTextArrives

SpecLog == InitSpecHb /\ [][NextLog]_vars

\* C26: after any sequence of STATUSTEXT messages the status log holds at
\* most 200 entries, and they are the most recently received ones in their
\* order of receipt (after 250 messages: the last 200, in original order).
C26_StatusLogHoldsNewest200 ==
    LET n == Len(status_messages)
    IN  /\ n <= 200
        /\ n = IF nStatus < 200 THEN nStatus ELSE 200
        /\ \A i \in 1..n :
              /\ status_messages[i].text = nStatus - n + i
              /\ status_messages[i].severity = (nStatus - n + i) % 8

\* C26 witness: 250 messages were received; the log holds 200 entries, from
\* message 51 to message 250.
C26_Witness ==
    /\ nStatus = 250
    /\ Len(status_messages) = 200
    /\ status_messages[1].text = 51
    /\ status_messages[200].text = 250

\* ------------------------------------------------------------------------
\* The custom sensor message
\* ------------------------------------------------------------------------
NextSensor == \E m \in CassMessages : TelHandle(m, FALSE)

SpecSensor == InitSpecHb /\ [][NextSensor]_vars

\* C28: handling a custom sensor message with sub-type 0 sets mean_temp to
\* the mean of the strictly positive values among its first four channels
\* (mean_temp keeps its value if none is positive) and appends exactly one
\* history sample, whose temperature is mean_temp - 273.15 when mean_temp is
\* above 100 and mean_temp otherwise.
C28_TemperatureSampleAppended ==
    [][ (telOp'.mtype = "CASS_SENSOR_RAW" /\ telOp'.app_datatype = 0) =>
          LET vs == Positive(telOp'.values)
              t == state'.mean_temp
          IN  /\ t = IF vs = <<>> THEN state.mean_temp ELSE Mean(vs)
              /\ sampleTemp' =
                    AppendSample(sampleTemp,
                        [temperature |-> IF t > 10000 THEN t - 27315 ELSE t,
                         humidity |-> state'.mean_rh]) ]_vars

\* ------------------------------------------------------------------------
\* Wind estimation: attitude updates, and the operator changing the
\* coefficients in between
\* ------------------------------------------------------------------------
\* coefficient pairs (A, B) in tenths: the defaults, a pair without the
\* square-root term, and one with a negative A
WindCoefficients == { <<WS_A, WS_B>>, <<200, 0>>, <<-10, 38>> }

\* the settings screen stores the coefficients on the client; wind is not
\* recomputed until the next ATTITUDE
SetWindCoefficients(c) ==
    /\ ws_a' = c[1]
    /\ ws_b' = c[2]
    /\ UNCHANGED <<connVars, hbVars, ioVars, histVars, wfVars, uiVars,
                   emVars, cmdVars>>
    /\ UNCHANGED <<state, telOp, status_messages, nStatus, sampleTemp,
                   last_sysid, last_compid>>

NextWind ==
    \/ \E m \in AttitudeMessages : TelHandle(m, FALSE)
    \/ \E c \in WindCoefficients : SetWindCoefficients(c)

SpecWind == InitSpecHb /\ [][NextWind]_vars

\* the step handles an ATTITUDE message (telOp') with the coefficients fixed
AttitudeUpdate ==
    telOp'.mtype = "ATTITUDE" /\ UNCHANGED <<ws_a, ws_b>>

\* C29 as stated: for fixed coefficients, the wind_speed computed on an
\* ATTITUDE update is 0 when pitch is 0, is never negative, and is
\* non-decreasing as |pitch| increases from 0: it is at least what any pitch
\* of smaller or equal magnitude gives.
C29_WindNonDecreasingInPitch ==
    [][ AttitudeUpdate =>
          /\ telOp'.pitch = 0 => state'.wind_speed = 0
          /\ state'.wind_speed >= 0
          /\ \A q \in Pitches :
                PitchMagnitude(q) <= PitchMagnitude(telOp'.pitch) =>
                    WindSpeed(q, ws_a, ws_b) <= state'.wind_speed ]_vars

\* C29: the wind_speed computed on an ATTITUDE update is 0 when pitch is 0
\* and is never negative; for fixed non-negative coefficients it is
\* non-decreasing as |pitch| increases from 0 while |pitch| is below pi/2.
C29_WindNonDecreasingBelowHalfPi ==
    [][ AttitudeUpdate =>
          /\ telOp'.pitch = 0 => state'.wind_speed = 0
          /\ state'.wind_speed >= 0
          /\ (ws_a >= 0 /\ ws_b >= 0
              /\ PitchMagnitude(telOp'.pitch) < HALF_PI) =>
                \A q \in Pitches :
                    PitchMagnitude(q) <= PitchMagnitude(telOp'.pitch) =>
                        WindSpeed(q, ws_a, ws_b) <= state'.wind_speed ]_vars

\* C29 witness: with the default coefficients, an ATTITUDE with a pitch of
\* -1.5 rad gave 37.1 * 14.101 + 3.8 * 3.755 = 537.416 m/s, the largest value
\* of the pitches below pi/2.
C29_Witness ==
    /\ telOp.mtype = "ATTITUDE"
    /\ telOp.pitch = -1500
    /\ ws_a = WS_A /\ ws_b = WS_B
    /\ state.pitch = -1500
    /\ state.wind_speed = 5374161
    /\ state.wind_speed > WindSpeed(1000, ws_a, ws_b)

\* C30 (as claimed): in one run of trigger_autovp that goes through all its
\* steps, the transmissions are, in order, the altitude parameter write,
\* then only RC7 overrides at 1900 (at least one), then only RC7 overrides
\* at 1100: no high pulse follows a release, and the last transmission of
\* the run is a release.
C30_ParamThenPulsesThenRelease ==
    \A t \in WfIds :
        (wfKind[t] = "autovp" /\ wfRel[t] = NumReleases
         /\ ~wfStepRaised[t] /\ wfPc[t] \in {"cb_ok", "done"}) =>
            wfTx[t] = <<"param", "rc7_1900", "rc7_1100">>

\* the transmission that the worker's position pc issues
IssuedAt(pc) ==
    CASE pc = "loiter" -> "mode_loiter"
      [] pc = "arm" -> "arm"
      [] pc = "auto" -> "mode_auto"
      [] OTHER -> "none"

\* C31: in one run of arm_and_takeoff_auto the commands are issued in the
\* order LOITER change, arm, AUTO change: each step issues its own command
\* and goes on to the next one (or to the except clause), so arm is never
\* transmitted before the LOITER change was issued nor AUTO before arm; and
\* a step waits for nothing: it can always be taken, whatever was received.
C31_LoiterThenArmThenAuto ==
    /\ [][ \A t \in WfIds :
             (wfKind[t] = "armtk" /\ wfPc'[t] # wfPc[t]) =>
                 /\ wfPc[t] = "loiter" => wfPc'[t] \in {"arm", "except"}
                 /\ wfPc[t] = "arm" => wfPc'[t] \in {"auto", "except"}
                 /\ wfPc[t] = "auto" => wfPc'[t] \in {"cb_ok", "except"}
                 /\ wfTx'[t] # wfTx[t] =>
                        wfTx'[t] = Append(wfTx[t], IssuedAt(wfPc[t])) ]_vars
    /\ []( \A t \in WfIds :
             /\ wfPc[t] = "loiter" => ENABLED AtLoiter(t, FALSE)
             /\ wfPc[t] = "arm" => ENABLED AtArm(t, FALSE)
             /\ wfPc[t] = "auto" => ENABLED AtAuto(t, FALSE) )

\* C31 witness: a run on an open connection transmitted the LOITER change,
\* arm and the AUTO change in this order, and reported success.
C31_Witness ==
    \E t \in WfIds :
        /\ wfKind[t] = "armtk"
        /\ wfPc[t] = "done"
        /\ wfTx[t] = <<"mode_loiter", "arm", "mode_auto">>
        /\ wfCalls[t] = <<TRUE>>

\* ------------------------------------------------------------------------
\* _on_heartbeat statement by statement, and the commands of the UI thread
\* ------------------------------------------------------------------------
\* heartbeats of two systems that are not ground stations: the autopilot
\* (system 1, component 1) and an onboard controller of a second system
\* (system 2, component 191), and one whose source component is 0
AddrHeartbeats ==
    { [mtype |-> "HEARTBEAT", vtype |-> MAV_TYPE_QUADROTOR, armed |-> FALSE,
       sysid |-> 1, compid |-> 1, system_status |-> 4, mode |-> "LOITER"],
      [mtype |-> "HEARTBEAT", vtype |-> "ONBOARD_CONTROLLER", armed |-> TRUE,
       sysid |-> 2, compid |-> 191, system_status |-> 4, mode |-> "AUTO"],
      [mtype |-> "HEARTBEAT", vtype |-> "ONBOARD_CONTROLLER", armed |-> TRUE,
       sysid |-> 3, compid |-> 0, system_status |-> 4, mode |-> "AUTO"],
      GcsHeartbeat }

\* `self.last_sysid or 1`, `self.last_compid or 1`: None and 0 both give 1
TargetId(id) == IF id = 0 THEN 1 ELSE id

\* _handle_message up to and including `self.last_sysid = ...` of
\* _on_heartbeat; a GCS heartbeat returns before anything is written.
HbStep1(w) ==
    /\ workers[w] = "handle"
    /\ rx[w].mtype = "HEARTBEAT"
    /\ hbPc[w] = 0
    /\ msg_count' = IF msg_count < MaxMsgs THEN msg_count + 1 ELSE msg_count
    /\ first_msg_set' = TRUE
    /\ IF rx[w].vtype = MAV_TYPE_GCS
       THEN /\ workers' = [workers EXCEPT ![w] = "drain"]
            /\ rx' = [rx EXCEPT ![w] = NoMsg]
            /\ UNCHANGED <<last_heartbeat_time, state_last_heartbeat,
                           last_sysid, hbPc, vehHbAt, connHbSeen>>
       ELSE /\ last_heartbeat_time' = now
            /\ state_last_heartbeat' = now
            /\ last_sysid' = rx[w].sysid
            /\ hbPc' = [hbPc EXCEPT ![w] = 1]
            /\ vehHbAt' = now
            /\ connHbSeen' = (connHbSeen \/ running)
            /\ UNCHANGED <<workers, rx>>
    /\ UNCHANGED <<running, conn, conn_str, thread, stop_event,
                   streams_requested, last_watchdog_log, api, events, nCalls,
                   lastCall, prevCall, lastJoined, now>>
    /\ UNCHANGED <<armed, last_stream_request_time, loop_now, gcs_hb_sent_at,
                   last_gcs_hb>>
    /\ UNCHANGED <<histVars, wfVars, uiVars, emVars>>
    /\ UNCHANGED <<state, telOp, status_messages, nStatus, sampleTemp, ws_a,
                   ws_b, last_compid, hbDone, lastTarget, snap>>

\* `self.last_compid = ...` to `self.state.armed = ...`
HbStep2(w) ==
    /\ workers[w] = "handle"
    /\ hbPc[w] = 1
    /\ last_compid' = rx[w].compid
    /\ armed' = rx[w].armed
    /\ hbPc' = [hbPc EXCEPT ![w] = 2]
    /\ UNCHANGED <<connVars, hbVars>>
    /\ UNCHANGED <<last_stream_request_time, loop_now, gcs_hb_sent_at,
                   last_gcs_hb, rx, connHbSeen>>
    /\ UNCHANGED <<histVars, wfVars, uiVars, emVars>>
    /\ UNCHANGED <<state, telOp, status_messages, nStatus, sampleTemp, ws_a,
                   ws_b, last_sysid, hbDone, lastTarget, snap>>

\* the flight mode, the system status and the stream request of the first
\* vehicle heartbeat: the rest of _on_heartbeat. The stream request is
\* addressed like every other transmission.
HbStep3(w, sendRaises) ==
    /\ workers[w] = "handle"
    /\ hbPc[w] = 2
    /\ state' = [state EXCEPT
                   !.flight_mode = IF conn # 0 THEN rx[w].mode ELSE @,
                   !.system_status = rx[w].system_status]
    /\ IF ~streams_requested
       THEN /\ streams_requested' = TRUE
            /\ RequestDataStreams(sendRaises)
            /\ lastTarget' =
                 IF conn # 0 /\ ~sendRaises
                 THEN [kind |-> "stream_request",
                       sysid |-> TargetId(last_sysid),
                       compid |-> TargetId(last_compid)]
                 ELSE lastTarget
       ELSE UNCHANGED <<streams_requested, last_stream_request_time,
                        lastTarget>>
    /\ hbDone' = [seen |-> TRUE, sysid |-> rx[w].sysid,
                  compid |-> rx[w].compid, armed |-> armed,
                  flight_mode |-> state'.flight_mode]
    /\ hbPc' = [hbPc EXCEPT ![w] = 0]
    /\ rx' = [rx EXCEPT ![w] = NoMsg]
    /\ workers' = [workers EXCEPT ![w] = "drain"]
    /\ UNCHANGED <<running, conn, conn_str, thread, stop_event, msg_count,
                   first_msg_set, last_watchdog_log, api, events, nCalls,
                   lastCall, prevCall, lastJoined, hbVars>>
    /\ UNCHANGED <<armed, loop_now, gcs_hb_sent_at, last_gcs_hb, connHbSeen>>
    /\ UNCHANGED <<histVars, wfVars, uiVars, emVars>>
    /\ UNCHANGED <<telOp, status_messages, nStatus, sampleTemp, ws_a, ws_b,
                   last_sysid, last_compid, snap>>

\* the transmissions the UI thread starts: send_command_long, set_param,
\* request_all_params, set_rc_override
CommandKinds == {"command_long", "param_set", "param_request_list",
                 "rc_override"}

\* One of them, called from the UI thread with a connection; without one each
\* returns before it reads the ids.
SendCommand(kind) ==
    /\ conn # 0
    /\ lastTarget' = [kind |-> kind, sysid |-> TargetId(last_sysid),
                      compid |-> TargetId(last_compid)]
    /\ UNCHANGED <<connVars, hbVars, ioVars, histVars, wfVars, uiVars, emVars,
                   vsVars>>
    /\ UNCHANGED <<hbPc, hbDone, snap>>

NextAddr ==
    \/ \E w \in WorkerIds : IoBurst(w)
    \/ \E w \in WorkerIds : IoCheck(w)
    \/ \E w \in WorkerIds, recv \in {"none", "raise", "msg"},
          m \in AddrHeartbeats : IoDrain(w, recv, m)
    \/ \E w \in WorkerIds : HbStep1(w)
    \/ \E w \in WorkerIds : HbStep2(w)
    \/ \E w \in WorkerIds, r \in BOOLEAN : HbStep3(w, r)
    \/ \E w \in WorkerIds, r \in BOOLEAN : IoHeartbeat(w, r)
    \/ \E w \in WorkerIds, r \in BOOLEAN : IoStream(w, r)
    \/ \E w \in WorkerIds : IoEmit(w, FALSE)
    \/ \E k \in CommandKinds : SendCommand(k)

SpecAddr == InitSpecHb /\ [][NextAddr]_vars

\* the heartbeats a worker is inside the handler of
BeingHandled ==
    { rx[w] : w \in { v \in WorkerIds : workers[v] = "handle"
                                         /\ rx[v].mtype = "HEARTBEAT"
                                         /\ rx[v].vtype # MAV_TYPE_GCS } }

\* C32: every command and request the client sends (command-long, parameter
\* set, parameter list request, RC override, stream-rate request) is
\* addressed to the system id and component id of the most recently handled
\* non-GCS heartbeat (the last one whose handling completed, or the one being
\* handled), and to 1/1 only while no such heartbeat has been observed.
C32_AddressedToLastHeartbeat ==
    [][lastTarget' # lastTarget =>
         LET t == <<lastTarget'.sysid, lastTarget'.compid>>
         IN  \/ hbDone'.seen /\ t = <<hbDone'.sysid, hbDone'.compid>>
             \/ \E m \in BeingHandled : t = <<m.sysid, m.compid>>
             \/ ~hbDone'.seen /\ t = <<1, 1>>]_vars

\* ------------------------------------------------------------------------
\* What makes the history grow: sensor messages among other messages and
\* commands
\* ------------------------------------------------------------------------
\* the sensor messages, and one message of three other types
GrowMessages ==
    CassMessages \cup
    { [mtype |-> "VFR_HUD", airspeed |-> 1250, groundspeed |-> 1180,
       heading |-> 270, throttle |-> 55, alt |-> 120],
      [mtype |-> "GPS_RAW_INT", fix_type |-> 3, satellites_visible |-> 11,
       eph |-> 120],
      [mtype |-> "ATTITUDE", roll |-> 0, pitch |-> 100, yaw |-> 0] }

NextGrow ==
    \/ \E m \in GrowMessages : TelHandle(m, FALSE)
    \/ \E k \in CommandKinds : SendCommand(k)

SpecGrow == InitSpecHb /\ [][NextGrow]_vars

\* C33: the history grows only through the custom sensor message: each
\* handled message with sub-type 0 or 1 appends exactly one sample (also when
\* its channels are all filtered out), and no other message type, no other
\* sub-type and no command changes any history buffer. (A step that changes
\* lastTarget is a command; every other step handles the message telOp'.)
C33_HistoryGrowsOnlyBySensorSamples ==
    [][ IF /\ lastTarget' = lastTarget
           /\ telOp'.mtype = "CASS_SENSOR_RAW"
           /\ telOp'.app_datatype \in {0, 1}
        THEN /\ sampleTemp' # <<>>
             /\ sampleTemp' =
                  AppendSample(sampleTemp, sampleTemp'[Len(sampleTemp')])
        ELSE sampleTemp' = sampleTemp ]_vars

\* ------------------------------------------------------------------------
\* clear_history on the UI thread while the IO worker is in append_history
\* ------------------------------------------------------------------------
\* ProfileScreen.clear_profile calls clear_history: the loop over
\* _history_keys is entered.
ClearBegin ==
    /\ clrIdx = 0
    /\ clrIdx' = 1
    /\ UNCHANGED <<hist, nAppended, appIdx, appPhase, rdPc, rdI, rdAlt, rdObs>>
    /\ UNCHANGED <<connVars, hbVars, ioVars, wfVars, uiVars, telVars>>

\* `setattr(self, k, [])` for the current key, then the next key or return.
\* The attribute gets a new empty list; an append_history that had already
\* fetched the old list of this key appends to and trims a list nobody reads
\* any more, which leaves the attribute as an append followed by this step.
ClearStep ==
    /\ clrIdx # 0
    /\ hist' = [hist EXCEPT ![clrIdx] = <<>>]
    /\ clrIdx' = IF clrIdx = Len(HistoryKeys) THEN 0 ELSE clrIdx + 1
    /\ UNCHANGED <<nAppended, appIdx, appPhase, rdPc, rdI, rdAlt, rdObs>>
    /\ UNCHANGED <<connVars, hbVars, ioVars, wfVars, uiVars, telVars>>

\* appends followed while the buffers are being cleared
MaxClearAppends == 1

\* a sensor sample arrives: append_history is called
AppendWhileClearing ==
    /\ nAppended < MaxClearAppends
    /\ AppendBegin

NextClear ==
    \/ AppendWhileClearing
    \/ AppendStep
    \/ TrimStep
    \/ ClearBegin
    \/ ClearStep

SpecClear == Init /\ [][NextClear]_vars

\* C34: for any interleaving of append_history (IO worker) with
\* clear_history (UI thread), once both calls have completed all history
\* buffers have the same length.
C34_EqualLengthsAfterClear ==
    (appIdx = 0 /\ clrIdx = 0) =>
        \A k \in 1..Len(HistoryKeys) : Len(hist[k]) = Len(hist[1])

\* the transmissions of a complete run of each workflow, repeats taken once
FullSequence(kind) ==
    IF kind = "autovp" THEN <<"param", "rc7_1900", "rc7_1100">>
    ELSE <<"mode_loiter", "arm", "mode_auto">>

\* C35: a background workflow reports success (on_done(True, ...)) only if
\* every command of its sequence was transmitted on an open connection: a
\* run started while not connected, or during which the connection is
\* stopped, does not report success.
C35_SuccessOnlyIfAllTransmitted ==
    \A t \in WfIds :
        (\E i \in 1..Len(wfCalls[t]) : wfCalls[t][i]) =>
            wfTx[t] = FullSequence(wfKind[t])

\* ------------------------------------------------------------------------
\* Verdicts on staged edits
\* ------------------------------------------------------------------------
\* The staged edit of n has not been committed: it was staged by the
\* operation just before, or its value cannot be packed into a PARAM_SET at
\* all (set_param raises on it).
NotCommitted(n) ==
    /\ IsPendingIn(modified, n)
    /\ \/ /\ parOp.op = "edit"
          /\ parOp.name = n
          /\ feedback.kind = "modified"
       \/ PackRaises(StagedIn(modified, n))

\* a verdict on the staged edit of n is on display
Verdict(fb, n) == fb.kind \in {"written", "write_failed"} /\ fb.name = n

C37_NoCallAfterUnsubscribe ==
    [][ ran' # ran =>
          \E k \in 1..Len(subscribers) :
              subscribers[k] = ran'[Len(ran')].cb ]_vars

\* ------------------------------------------------------------------------
\* Snapshots for DATA_UPDATED, over start() and stop()
\* ------------------------------------------------------------------------
\* heartbeats of the vehicle before and after it is armed and put into AUTO
SnapHeartbeats ==
    { [mtype |-> "HEARTBEAT", vtype |-> MAV_TYPE_QUADROTOR, armed |-> FALSE,
       sysid |-> 1, compid |-> 1, system_status |-> 3, mode |-> "LOITER"],
      [mtype |-> "HEARTBEAT", vtype |-> MAV_TYPE_QUADROTOR, armed |-> TRUE,
       sysid |-> 1, compid |-> 1, system_status |-> 4, mode |-> "AUTO"] }

\* VehicleState.snapshot(): the current-value fields as they are now (of
\* them, the two a heartbeat sets in different statements)
Snapshot == [taken |-> TRUE, armed |-> armed,
             flight_mode |-> state.flight_mode]

\* The data emit of worker w with a subscriber listening:
\* `self.event_bus.emit(EventType.DATA_UPDATED, self.state.snapshot())`
SnapEmit(w) ==
    /\ workers[w] = "emit"
    /\ workers' = [workers EXCEPT ![w] = "check"]
    /\ snap' = Snapshot
    /\ UNCHANGED <<running, conn, conn_str, thread, stop_event,
                   streams_requested, msg_count, first_msg_set,
                   last_watchdog_log, api, events, nCalls, lastCall,
                   prevCall, lastJoined, hbVars, ioVars>>
    /\ UNCHANGED <<histVars, wfVars, uiVars, emVars, vsVars>>
    /\ UNCHANGED <<hbPc, hbDone, lastTarget>>

NextSnap ==
    \/ \E cs \in ConnStrs, opens \in BOOLEAN : Start(cs, opens)
    \/ StopCall
    \/ JoinReturns
    \/ JoinTimeout
    \/ \E w \in WorkerIds : IoBurst(w)
    \/ \E w \in WorkerIds : IoCheck(w)
    \/ \E w \in WorkerIds, recv \in {"none", "raise", "msg"},
          m \in SnapHeartbeats : IoDrain(w, recv, m)
    \/ \E w \in WorkerIds : HbStep1(w)
    \/ \E w \in WorkerIds : HbStep2(w)
    \/ \E w \in WorkerIds, r \in BOOLEAN : HbStep3(w, r)
    \/ \E w \in WorkerIds, r \in BOOLEAN : IoHeartbeat(w, r)
    \/ \E w \in WorkerIds, r \in BOOLEAN : IoStream(w, r)
    \/ \E w \in WorkerIds : SnapEmit(w)

SpecSnap == Init /\ [][NextSnap]_vars

\* C38: every snapshot delivered with a DATA_UPDATED event equals the
\* current-value fields as they were between two complete message-handler
\* executions: it holds the values the last completed handler left (the
\* initial ones before any), never some fields from before and others from
\* after the handling of one message.
C38_SnapshotBetweenHandlers ==
    [][ snap' # snap =>
          <<snap'.armed, snap'.flight_mode>> =
             IF hbDone.seen THEN <<hbDone.armed, hbDone.flight_mode>>
             ELSE <<FALSE, InitState.flight_mode>> ]_vars

\* C39: the CONNECTION_CHANGED events of one client strictly alternate
\* connected=true, connected=false, starting with connected=true; start() on
\* a running client, a start() that fails to open the transport and stop()
\* on a stopped client emit no event.
C39_ConnectionEventsAlternate ==
    /\ [](\A i \in 1..Len(events) : events[i] = (i % 2 = 1))
    /\ [][ (\/ IsStartStep /\ lastCall' \in {"start_noop", "start_raised"}
            \/ IsStopNoopStep)
           => events' = events ]_vars

\* C39 witness: the client was started, stopped and started again, each
\* with its event.
C39_Witness ==
    /\ events = <<TRUE, FALSE, TRUE>>
    /\ running
    /\ lastCall = "start_ok"

\* C40: every bulk-download session started by a refresh ends with exactly
\* one terminal outcome, the loaded outcome on reaching the declared count or
\* the timeout outcome, never both: a loading session has exactly one
\* watchdog timer pending and nothing else has one, an outcome occurs only
\* for a loading session, ends it and leaves no timer (so that the watchdog
\* of a completed session never fires), and only an outcome ends a session.
C40_OneTerminalOutcome ==
    /\ [](loading <=> timeout_left # NoVal)
    /\ [][ LET timedOut == parOp'.op = "timeout"
               loaded == /\ parOp'.op = "recv"
                         /\ loading
                         /\ feedback'.kind = "loaded"
           IN  /\ (loading /\ ~loading') => (timedOut # loaded)
               /\ (timedOut \/ loaded) =>
                     /\ loading
                     /\ ~loading'
                     /\ timeout_left' = NoVal
               /\ (~loading /\ loading') =>
                     /\ parOp'.op = "refresh"
                     /\ timeout_left' = LOAD_FIRST_S ]_vars

\* C40 witness: a session that declared 2 parameters timed out with 1
\* received; the missing one arrived afterwards and was stored, without a
\* loaded outcome and without a new watchdog timer.
C40_Witness ==
    /\ parOp.op = "recv"
    /\ feedback = [kind |-> "timeout", name |-> "", a |-> 1, b |-> 2]
    /\ Received(params) = 2
    /\ param_count = 2
    /\ ~loading
    /\ timeout_left = NoVal
====
